---- MODULE Spec2Model ----
(***************************************************************************)
(* Blob Manager (BlobManager.actor.cpp): range assignment engine, client   *)
(* range monitor, granule splits, worker supervision and recovery.         *)
(*                                                                         *)
(* Keys are the integers 0..NormalEnd; normalKeys = [0, NormalEnd).        *)
(* A key range is a record [begin, end) with begin < end.                  *)
(* UID() (the invalid / unset worker id) is NoWorker = 0.                  *)
(***************************************************************************)
EXTENDS Integers, Sequences, FiniteSets, TLC

VARIABLES
    \* ---- BlobManagerData ----
    knownBlobRanges,    \* KeyRangeMap<bool>
    epoch,              \* int64_t epoch
    seqNo,              \* int64_t seqNo
    iAmReplaced,        \* Promise<Void> iAmReplaced has been sent
    rangesToAssign,     \* PromiseStream<RangeAssignment>, in send order
    stopped,            \* the blobManager actor has left its main loop (all actors cancelled)
    assertFailed,       \* name of the ASSERT that failed and ended the process, "" if none
    nextUID,            \* source of deterministicRandom()->randomUniqueID()
    splitTasks,         \* the running maybeSplitRange actors
    \* ---- persisted system keys ----
    managerEpoch,       \* blobManagerEpochKey
    granuleLocks,       \* blobGranuleLockKeyFor(range) -> (epoch, seqno, granuleID)
    splitBoundaries,    \* blobGranuleSplitBoundaryKeyFor(parent, key): marker and boundary keys
    splitKeys,          \* blobGranuleSplitKeyFor(parent, child)
    historyKeys,        \* blobGranuleHistoryKeyFor(range, version) -> (granuleID, parent)
    \* ---- updateClientBlobRanges harness ----
    rangesToAdd,        \* VectorRef<KeyRangeRef> filled by the last call
    rangesToRemove,     \* VectorRef<KeyRangeRef> filled by the last call
    initialKnown,       \* S0: the active value of every key before the first call
    dbActive,           \* Sn: the active value of every key in the last DB result
    netEmitted,         \* per key: #added ranges - #removed ranges over all calls
    \* ---- BlobManagerData: assignment engine ----
    workerAssignments,  \* KeyRangeMap<UID>
    workerStats,        \* workersById / workerStats: worker id -> numGranulesAssigned
    deadWorkers,        \* std::unordered_set<UID> deadWorkers
    assignsInProgress,  \* KeyRangeActorMap: key -> index in sent of the doRangeAssignment actor, 0 if none
    inflight,           \* indices in sent of the doRangeAssignment actors waiting for their reply
    sent,               \* every Assign/Revoke request handed to the network, in dispatch order
    monitor,            \* monitorClientRanges: pc, loop index, change key read, lastChangeKeyValue
    lastSeenSeqno,      \* monitorBlobWorkerStatus: per worker KeyRangeMap<(epoch, seqno)>
    killTasks,          \* killBlobWorker per worker: "none", "deregistering", "deregistered", "done", "error"
    recruitTriggers,    \* number of restartRecruiting.trigger() calls
    \* ---- cluster around the manager ----
    bwAlive,            \* the blob worker processes that are running
    bwList,             \* blobWorkerListKeyFor(id): the persisted worker list
    changeKey,          \* blobRangeChangeKey
    granuleMapping,     \* blobGranuleMappingKeys: krm of worker ids
    staleCommits,       \* transactions of this manager committed while blobManagerEpochKey > epoch
    reportsSent,        \* number of GranuleStatusReply messages delivered
    \* ---- recoverBlobManager ----
    recovery,           \* pc and locals: inProgressSplits, workerAssignments, outOfDateAssignments
    bwGranules,         \* per worker: its answer to GetGranuleAssignmentsRequest
    \* ---- rangeAssigner waiting in pickWorkerForAssign ----
    assignerWait,       \* <<>>, or the one Assign (with its seqno) rangeAssigner holds while it waits
    \* ---- chaosRangeMover ----
    alreadyMoved,       \* ranges the mover has moved
    \* ---- doLockChecks ----
    doLockCheck,        \* the promise doLockCheck and the position of doLockChecks
    \* ---- blobWorkerRecruiter / checkBlobWorkerList ----
    recruiting,         \* workerAddresses, recruitingLocalities, requests and list reads in flight
    \* ---- monitorPruneKeys / pruneRange ----
    pruneIntents,       \* blobGranulePruneKeys: key -> (pruneVersion, force), or the empty value
    pruneChangeKey,     \* blobGranulePruneChangeKey
    prune,              \* monitorPruneKeys and its pruneRange actor: pc and locals
    fileKeys            \* granule ids that still have blob files and file keys

rangeVars == <<knownBlobRanges, rangesToAdd, rangesToRemove, initialKnown, dbActive,
               netEmitted>>

bmVars == <<epoch, seqNo, iAmReplaced, rangesToAssign, stopped, assertFailed, nextUID>>

dbVars == <<managerEpoch, granuleLocks, splitBoundaries, splitKeys, historyKeys>>

engVars == <<workerAssignments, workerStats, deadWorkers, assignsInProgress, inflight, sent,
             monitor, lastSeenSeqno, killTasks, recruitTriggers>>

engVarsButMonitor == <<workerAssignments, workerStats, deadWorkers, assignsInProgress, inflight,
                      sent, lastSeenSeqno, killTasks, recruitTriggers>>

envVars == <<bwAlive, bwList, changeKey, granuleMapping, staleCommits, reportsSent>>

recVars == <<recovery, bwGranules>>

gcVars == <<pruneIntents, pruneChangeKey, prune, fileKeys>>

vars == <<rangeVars, bmVars, splitTasks, dbVars, engVars, envVars, recVars, assignerWait,
          alreadyMoved, doLockCheck, recruiting, gcVars>>

----------------------------------------------------------------------------
(* Bounds *)

\* normalKeys.end of the updateranges harness: keys 0..RangeKeys-1 are user keys
RangeKeys == 3
\* end key of the granule split in SpecSplit: the splitter may return up to
\* SplitKeys + 1 boundaries
SplitKeys == 12
\* failed or unknown-result attempts explored per split transaction
MaxAttempts == 2
\* Blob Managers elected after the modelled one
MaxNewManagers == 1
\* normalKeys.end of the assignment engine: its user keys are 0..NormalEnd-1
NormalEnd == 2
\* the blob workers of the assignment engine are 1..NumWorkers
NumWorkers == 2
\* the range assigner stops taking events once seqNo has passed MaxSeqNo
MaxSeqNo == 7
\* the same cap where a lost conflict is followed until the manager is idle
MaxConflictSeqNo == 8
\* changes the client makes to the blob ranges
MaxClientChanges == 2
\* granule status replies delivered to the manager
MaxReports == 1
\* the number of status replies delivered where repeated replies are studied
MaxRepeats == 2
\* the keys of the map and the number of calls where addAssignment is studied alone
AddEnd == 3
MaxAddCalls == 3
\* blob workers that fail
MaxFailures == 1

----------------------------------------------------------------------------
(* Generic helpers *)

NoWorker == 0

Min(a, b) == IF a < b THEN a ELSE b
Max(a, b) == IF a > b THEN a ELSE b

RECURSIVE SortedSeq(_)
SortedSeq(S) ==
    IF S = {} THEN <<>>
    ELSE LET m == CHOOSE x \in S : \A y \in S : x <= y
         IN <<m>> \o SortedSeq(S \ {m})

Range(b, e) == [begin |-> b, end |-> e]

KeysOf(r) == r.begin .. (r.end - 1)

Overlaps(r1, r2) == r1.begin < r2.end /\ r2.begin < r1.end

----------------------------------------------------------------------------
(* KeyRangeMap<T>: a sorted interval map.  bounds is the set of interval  *)
(* begin keys (always containing 0), val gives the value of every key,    *)
(* mapEnd is the end of the last interval.                                *)

KRMNew(v, mapEnd) == [bounds |-> {0}, val |-> [k \in 0 .. (mapEnd - 1) |-> v], mapEnd |-> mapEnd]

KRMNextBound(m, b) ==
    LET later == {x \in m.bounds : x > b}
    IN IF later = {} THEN m.mapEnd ELSE CHOOSE x \in later : \A y \in later : x <= y

\* ranges(): every stored interval in key order, as [begin, end, value]
KRMRanges(m) ==
    LET bs == SortedSeq(m.bounds)
    IN [i \in 1 .. Len(bs) |->
          [begin |-> bs[i], end |-> KRMNextBound(m, bs[i]), value |-> m.val[bs[i]]]]

\* intersectingRanges(range): the stored intervals overlapping range, in key order
KRMIntersecting(m, r) ==
    SelectSeq(KRMRanges(m), LAMBDA it : Overlaps(it, r))

\* rangeContaining(key)
KRMRangeContaining(m, k) ==
    LET b == CHOOSE x \in m.bounds : x <= k /\ \A y \in m.bounds : y <= k => y <= x
    IN [begin |-> b, end |-> KRMNextBound(m, b), value |-> m.val[b]]

\* insert(range, value): overwrite the value over range; the intervals cut by
\* range.begin and range.end are fragmented, nothing is merged
KRMInsert(m, r, v) ==
    [bounds |-> ({x \in m.bounds : x <= r.begin \/ x >= r.end} \cup {r.begin})
                  \cup (IF r.end < m.mapEnd THEN {r.end} ELSE {}),
     val    |-> [k \in DOMAIN m.val |-> IF k \in KeysOf(r) THEN v ELSE m.val[k]],
     mapEnd |-> m.mapEnd]

\* coalesce(range): merge neighbouring intervals that hold the same value
KRMCoalesce(m) ==
    [bounds |-> {x \in m.bounds : x = 0 \/ m.val[x - 1] # m.val[x]},
     val    |-> m.val,
     mapEnd |-> m.mapEnd]

\* every well-formed map with boolean values over [0, mapEnd)
KRMAllBool(mapEnd) ==
    {[bounds |-> bs \cup {0}, val |-> v, mapEnd |-> mapEnd] :
        <<bs, v>> \in {p \in (SUBSET (1 .. (mapEnd - 1))) \X [0 .. (mapEnd - 1) -> BOOLEAN] :
                         \A k \in 1 .. (mapEnd - 1) : p[2][k - 1] # p[2][k] => k \in p[1]}}

----------------------------------------------------------------------------
(* handleClientBlobRange / updateClientBlobRanges *)

\* variant that reports the whole known interval instead of its overlap with the DB range
RECURSIVE HandleOverlapsWholeInterval(_, _, _, _)
HandleOverlapsWholeInterval(its, r, rangeActive, out) ==
    IF its = <<>> THEN out
    ELSE LET it == Head(its)
             whole == Range(it.begin, it.end)
             out2 == IF it.value # rangeActive
                     THEN IF rangeActive
                          THEN [out EXCEPT !.add = Append(@, whole)]
                          ELSE [out EXCEPT !.remove = Append(@, whole)]
                     ELSE out
         IN HandleOverlapsWholeInterval(Tail(its), r, rangeActive, out2)

\* state threaded through the calls: the map and the two output vectors
RECURSIVE HandleOverlaps(_, _, _, _)
HandleOverlaps(its, r, rangeActive, out) ==
    IF its = <<>> THEN out
    ELSE LET it == Head(its)
             overlap == Range(Max(it.begin, r.begin), Min(r.end, it.end))
             out2 == IF it.value # rangeActive
                     THEN IF rangeActive
                          THEN [out EXCEPT !.add = Append(@, overlap)]
                          ELSE [out EXCEPT !.remove = Append(@, overlap)]
                     ELSE out
         IN HandleOverlaps(Tail(its), r, rangeActive, out2)

\* variant that reports the overlaps but leaves knownBlobRanges as it was
handleClientBlobRangeNoInsert(st, rangeStart, rangeEnd, rangeActive) ==
    LET keyRange == Range(rangeStart, rangeEnd)
    IN HandleOverlaps(KRMIntersecting(st.known, keyRange), keyRange, rangeActive, st)

handleClientBlobRange(st, rangeStart, rangeEnd, rangeActive) ==
    LET keyRange == Range(rangeStart, rangeEnd)
    IN [HandleOverlaps(KRMIntersecting(st.known, keyRange), keyRange, rangeActive, st)
          EXCEPT !.known = KRMInsert(st.known, keyRange, rangeActive)]

\* the loop over dbBlobRanges[i], i < size - 1, with its break on a start key
\* at or past normalKeys.end and its clipping of the end key
RECURSIVE UpdateLoop(_, _, _, _)
UpdateLoop(st, db, i, normalEnd) ==
    IF i > Len(db) - 1 THEN st
    ELSE IF db[i].key >= normalEnd THEN st
    ELSE LET endKey == IF db[i + 1].key > normalEnd THEN normalEnd ELSE db[i + 1].key
         IN UpdateLoop(handleClientBlobRange(st, db[i].key, endKey, db[i].active), db, i + 1, normalEnd)

\* variant that returns without the final coalesce(normalKeys)
updateClientBlobRangesNoCoalesce(known, db, normalEnd) ==
    LET st0 == [known |-> known, add |-> <<>>, remove |-> <<>>]
    IN IF Len(db) = 0
       THEN handleClientBlobRange(st0, 0, normalEnd, FALSE)
       ELSE LET st1 == IF db[1].key > 0
                       THEN handleClientBlobRange(st0, 0, db[1].key, FALSE)
                       ELSE st0
                st2 == UpdateLoop(st1, db, 1, normalEnd)
            IN IF db[Len(db)].key < normalEnd
               THEN handleClientBlobRange(st2, db[Len(db)].key, normalEnd, FALSE)
               ELSE st2

updateClientBlobRanges(known, db, normalEnd) ==
    LET st0 == [known |-> known, add |-> <<>>, remove |-> <<>>]
        st3 == IF Len(db) = 0
               THEN handleClientBlobRange(st0, 0, normalEnd, FALSE)
               ELSE LET st1 == IF db[1].key > 0
                               THEN handleClientBlobRange(st0, 0, db[1].key, FALSE)
                               ELSE st0
                        st2 == UpdateLoop(st1, db, 1, normalEnd)
                    IN IF db[Len(db)].key < normalEnd
                       THEN handleClientBlobRange(st2, db[Len(db)].key, normalEnd, FALSE)
                       ELSE st2
    IN [st3 EXCEPT !.known = KRMCoalesce(@)]

\* A DB read result: boundary keys in strictly increasing order inside
\* [0, normalEnd], each with the value "1" (active) or "" (inactive); the last
\* boundary only closes the last interval and holds "".
DbResults(normalEnd) ==
    UNION {LET ss == SortedSeq(ks)
           IN {[i \in 1 .. Len(ss) |-> [key |-> ss[i], active |-> f[ss[i]]]] :
                  f \in {g \in [ks -> BOOLEAN] : ks # {} => ~g[ss[Len(ss)]]}} :
           ks \in SUBSET (0 .. normalEnd)}

DbResultsInRange == DbResults(RangeKeys)

\* the set the DB result declares active: key k is active iff the entry that
\* starts the boundary interval containing k holds "1"
DbActiveAt(db, k) ==
    \E i \in 1 .. (Len(db) - 1) : db[i].key <= k /\ k < db[i + 1].key /\ db[i].active

CountContaining(rs, k) == Cardinality({i \in 1 .. Len(rs) : k \in KeysOf(rs[i])})


----------------------------------------------------------------------------
(* RangeAssignment events *)

AssignEvent(r, w, type) ==
    [isAssign |-> TRUE, keyRange |-> r, worker |-> w, type |-> type, dispose |-> FALSE]

RevokeEvent(r, w, dispose) ==
    [isAssign |-> FALSE, keyRange |-> r, worker |-> w, type |-> "Revoke", dispose |-> dispose]

----------------------------------------------------------------------------
(* downsampleSplit and the fanout cap of maybeSplitRange *)

maxSplitFanout == 10

\* indices are those of the C++ vector (0-based): splits[i] is SeqAt(splits, i)
SeqAt(q, i) == q[i + 1]

\* result: the appended keys and whether every ASSERT passed
RECURSIVE downsampleSplit(_, _, _, _)
downsampleSplit(splits, startIdx, endIdx, remaining) ==
    IF ~(endIdx - startIdx >= remaining /\ remaining >= 0)
    THEN [out |-> <<>>, ok |-> FALSE]
    ELSE IF remaining = 0
    THEN [out |-> <<>>, ok |-> TRUE]
    ELSE IF endIdx - startIdx = remaining
    THEN [out |-> [i \in 1 .. remaining |-> SeqAt(splits, startIdx + i - 1)], ok |-> TRUE]
    ELSE LET mid == (startIdx + endIdx) \div 2
             startCount == (remaining - 1) \div 2
             endCount == remaining - startCount - 1
         IN IF mid = endIdx \/ mid + 1 = startIdx
            THEN [out |-> <<>>, ok |-> FALSE]
            ELSE LET lo == downsampleSplit(splits, startIdx, mid, startCount)
                     hi == downsampleSplit(splits, mid + 1, endIdx, endCount)
                 IN [out |-> lo.out \o <<SeqAt(splits, mid)>> \o hi.out, ok |-> lo.ok /\ hi.ok]

\* variant that asks downsampleSplit for maxSplitFanout inner boundaries
CapSplitFanoutOneMore(newRanges) ==
    IF Len(newRanges) >= maxSplitFanout + 2
    THEN LET ds == downsampleSplit(newRanges, 1, Len(newRanges) - 1, maxSplitFanout)
         IN [out |-> <<newRanges[1]>> \o ds.out \o <<newRanges[Len(newRanges)]>>, ok |-> ds.ok]
    ELSE [out |-> newRanges, ok |-> TRUE]

\* newRanges after "Enforce max split fanout": [out, ok]
CapSplitFanout(newRanges) ==
    IF Len(newRanges) >= maxSplitFanout + 2
    THEN LET ds == downsampleSplit(newRanges, 1, Len(newRanges) - 1, maxSplitFanout - 1)
             coalescedRanges == <<newRanges[1]>> \o ds.out \o <<newRanges[Len(newRanges)]>>
         IN [out |-> coalescedRanges, ok |-> ds.ok /\ Len(coalescedRanges) = maxSplitFanout + 1]
    ELSE [out |-> newRanges, ok |-> TRUE]

\* what splitRange may return for a range: the range's two ends, with any
\* subset of the keys between them (ASSERTs at the end of splitRange)
SplitRangeResults(r) ==
    {<<r.begin>> \o SortedSeq(ks) \o <<r.end>> : ks \in SUBSET ((r.begin + 1) .. (r.end - 1))}

----------------------------------------------------------------------------
(* maybeSplitRange *)

NoSeqno == -1

\* variant in which taking a seqno leaves the counter where it was
SeqnoKept(sq) == sq

\* bmData->seqNo++ after a seqno was taken
SeqnoAfter(sq) == sq + 1

NewSplitTask(w, r, granuleID, startVersion, latestVersion) ==
    [pc |-> "splitRange", worker |-> w, range |-> r, granuleID |-> granuleID,
     startVersion |-> startVersion, latestVersion |-> latestVersion,
     splitterResult |-> <<>>, splitterSize |-> 0,
     newRanges |-> <<>>, newGranuleIDs |-> <<>>, splitSeqno |-> NoSeqno,
     newLockSeqno |-> NoSeqno, attempts |-> 0, commits |-> 0]

\* doLockChecks waits for the promise doLockCheck, which is not set.  replaced
\* records that a conflict reply arrived while a newer manager epoch was persisted.
LockCheckIdle == [pc |-> "unset", read |-> 0, replaced |-> FALSE]

\* processes a blob worker can be recruited on
NumHosts == 2

\* BlobWorkerInterface::stableAddress() of the blob worker with id w
BwAddr(w) == ((w - 1) % NumHosts) + 1

\* the recruiter and checkBlobWorkerList at rest, with the addresses of the
\* workers in workersById (the keys of workerStats) in workerAddresses
RecruitingIdle ==
    [workerAddresses |-> {BwAddr(w) : w \in DOMAIN workerStats},
     recruitingLocalities |-> {},
     initializing |-> {},
     usedIds |-> DOMAIN workerStats,
     blobWorkers |-> <<>>,
     listReads |-> 0,
     unregisteredKills |-> {}]

\* the blobManager actor has not returned and no ASSERT has ended the process
Running == ~stopped /\ assertFailed = ""

\* iAmReplaced.send() resumes the blobManager actor, which leaves its loop and
\* drops the actor collection: no other actor of this manager runs after it
Active == Running /\ ~iAmReplaced

\* splitRange returned: either continue the assignment, or fix the boundaries,
\* the child granule ids and the split seqno once, before the retry loop
SplitRangeDone(t) ==
    /\ Active
    /\ t \in DOMAIN splitTasks
    /\ splitTasks[t].pc = "splitRange"
    /\ \E res \in SplitRangeResults(splitTasks[t].range) :
         IF Len(res) = 2
         THEN /\ rangesToAssign' = Append(rangesToAssign,
                      AssignEvent(splitTasks[t].range, splitTasks[t].worker, "Continue"))
              /\ splitTasks' = [splitTasks EXCEPT ![t].pc = "done", ![t].newRanges = res,
                                                   ![t].splitterResult = res, ![t].splitterSize = 2]
              /\ UNCHANGED <<seqNo, nextUID, assertFailed>>
         ELSE \E cap \in {CapSplitFanout(res)} :
                IF ~cap.ok
                THEN /\ assertFailed' = "downsampleSplit"
                     /\ UNCHANGED <<rangesToAssign, splitTasks, seqNo, nextUID>>
                ELSE /\ splitTasks' = [splitTasks EXCEPT
                           ![t].pc = "txn",
                           ![t].splitterResult = res,
                           ![t].splitterSize = Len(res),
                           ![t].newRanges = cap.out,
                           ![t].newGranuleIDs = [i \in 1 .. (Len(cap.out) - 1) |-> nextUID + i],
                           ![t].splitSeqno = seqNo]
                     /\ nextUID' = nextUID + Len(cap.out) - 1
                     /\ seqNo' = SeqnoAfter(seqNo)
                     /\ UNCHANGED <<rangesToAssign, assertFailed>>
    /\ UNCHANGED <<gcVars, alreadyMoved, recruiting, doLockCheck, assignerWait, recVars, engVars, envVars, rangeVars, epoch, iAmReplaced, stopped, dbVars>>

\* variant that draws the child granule ids inside the retry loop
SplitWritesFreshIDs(task, lockSeqno, prevLock) ==
    LET ids == [i \in 1 .. Len(task.newGranuleIDs) |->
                  task.newGranuleIDs[i] + 100 * task.attempts]
    IN [lock |-> [epoch |-> epoch, seqno |-> lockSeqno, granuleID |-> prevLock.granuleID],
        boundaries |-> [marker |-> <<epoch, task.splitSeqno>>,
                        keys |-> {task.newRanges[i] : i \in 1 .. Len(task.newRanges)}],
        splits |-> {<<task.granuleID, ids[i]>> : i \in 1 .. Len(ids)},
        history |-> [i \in 1 .. (Len(task.newRanges) - 1) |->
                       [key |-> <<Range(task.newRanges[i], task.newRanges[i + 1]), task.latestVersion>>,
                        value |-> [granuleID |-> ids[i],
                                   parentRange |-> task.range,
                                   parentVersion |-> task.startVersion]]]]

\* the keys one attempt of the split transaction sets
SplitWrites(task, lockSeqno, prevLock) ==
    [lock |-> [epoch |-> epoch, seqno |-> lockSeqno, granuleID |-> prevLock.granuleID],
     boundaries |-> [marker |-> <<epoch, task.splitSeqno>>,
                     keys |-> {task.newRanges[i] : i \in 1 .. Len(task.newRanges)}],
     splits |-> {<<task.granuleID, task.newGranuleIDs[i]>> : i \in 1 .. Len(task.newGranuleIDs)},
     history |-> [i \in 1 .. (Len(task.newRanges) - 1) |->
                    [key |-> <<Range(task.newRanges[i], task.newRanges[i + 1]), task.latestVersion>>,
                     value |-> [granuleID |-> task.newGranuleIDs[i],
                                parentRange |-> task.range,
                                parentVersion |-> task.startVersion]]]]

ApplyHistory(h, writes) ==
    [k \in DOMAIN h \cup {writes[i].key : i \in 1 .. Len(writes)} |->
        IF \E i \in 1 .. Len(writes) : writes[i].key = k
        THEN writes[CHOOSE i \in 1 .. Len(writes) : writes[i].key = k].value
        ELSE h[k]]

\* checkManagerLock found a newer epoch: iAmReplaced is sent and
\* blob_manager_replaced leaves the actor through tr->onError
SplitAttemptReplaced(t) ==
    /\ Active
    /\ t \in DOMAIN splitTasks
    /\ splitTasks[t].pc = "txn"
    /\ managerEpoch # epoch
    /\ iAmReplaced' = TRUE
    /\ splitTasks' = [splitTasks EXCEPT ![t].pc = "error"]
    /\ UNCHANGED <<gcVars, alreadyMoved, recruiting, doLockCheck, assignerWait, recVars, engVars, envVars, rangeVars, epoch, seqNo, rangesToAssign, stopped, assertFailed, nextUID, dbVars>>

\* a retryable error before the granule lock was read: nothing happened
SplitAttemptEarlyError(t) ==
    /\ Active
    /\ t \in DOMAIN splitTasks
    /\ splitTasks[t].pc = "txn"
    /\ splitTasks[t].attempts < MaxAttempts
    /\ splitTasks' = [splitTasks EXCEPT ![t].attempts = @ + 1]
    /\ UNCHANGED <<gcVars, alreadyMoved, recruiting, doLockCheck, assignerWait, recVars, engVars, envVars, rangeVars, bmVars, dbVars>>

\* one attempt that got as far as the commit.  outcome "committed": the commit
\* succeeded; "not_committed": it failed and nothing was written; "unknown":
\* commit_unknown_result after the writes became durable.  The last two retry.
SplitAttempt(t, outcome) ==
    /\ Active
    /\ t \in DOMAIN splitTasks
    /\ splitTasks[t].pc = "txn"
    /\ managerEpoch = epoch
    /\ outcome \in {"committed", "not_committed", "unknown"}
    /\ outcome # "committed" => splitTasks[t].attempts < MaxAttempts
    /\ LET task == splitTasks[t]
           lockPresent == task.range \in DOMAIN granuleLocks
       IN IF ~lockPresent
          THEN /\ assertFailed' = "lockValue.present"
               /\ UNCHANGED <<splitTasks, seqNo, iAmReplaced, dbVars>>
          ELSE IF granuleLocks[task.range].epoch > epoch
          THEN \* a higher epoch holds the granule lock: iAmReplaced is sent, the actor returns
               /\ iAmReplaced' = TRUE
               /\ splitTasks' = [splitTasks EXCEPT ![t].pc = "done"]
               /\ UNCHANGED <<seqNo, assertFailed, dbVars>>
          ELSE
          /\ LET prevLock == granuleLocks[task.range]
                 first == task.newLockSeqno = NoSeqno
                 lockSeqno == IF first THEN seqNo ELSE task.newLockSeqno
                 inOrder == \/ epoch > prevLock.epoch
                            \/ /\ epoch = prevLock.epoch
                               /\ IF first THEN lockSeqno > prevLock.seqno
                                           ELSE lockSeqno >= prevLock.seqno
             IN /\ seqNo' = IF first THEN SeqnoAfter(seqNo) ELSE seqNo
                /\ IF ~inOrder
                   THEN /\ assertFailed' = "lock out of order"
                        /\ splitTasks' = [splitTasks EXCEPT ![t].newLockSeqno = lockSeqno]
                        /\ UNCHANGED <<iAmReplaced, dbVars>>
                   ELSE /\ UNCHANGED <<assertFailed, iAmReplaced, managerEpoch>>
                        /\ splitTasks' = [splitTasks EXCEPT
                              ![t].newLockSeqno = lockSeqno,
                              ![t].attempts = IF outcome = "committed" THEN @ ELSE @ + 1,
                              ![t].commits = IF outcome = "not_committed" THEN @ ELSE @ + 1,
                              ![t].pc = IF outcome = "committed" THEN "committed" ELSE "txn"]
                        /\ IF outcome = "not_committed"
                           THEN UNCHANGED <<granuleLocks, splitBoundaries, splitKeys, historyKeys>>
                           ELSE \E w \in {SplitWrites(task, lockSeqno, prevLock)} :
                                  /\ granuleLocks' = [granuleLocks EXCEPT ![task.range] = w.lock]
                                  /\ splitBoundaries' =
                                       [p \in DOMAIN splitBoundaries \cup {task.granuleID} |->
                                          IF p = task.granuleID
                                          THEN [marker |-> w.boundaries.marker,
                                                keys |-> w.boundaries.keys \cup
                                                         (IF p \in DOMAIN splitBoundaries
                                                          THEN splitBoundaries[p].keys ELSE {})]
                                          ELSE splitBoundaries[p]]
                                  \* SetVersionstampedValue: the value carries the commit's versionstamp
                                  /\ splitKeys' = [k \in DOMAIN splitKeys \cup w.splits |->
                                                     IF k \in w.splits THEN task.commits + 1
                                                     ELSE splitKeys[k]]
                                  /\ historyKeys' = ApplyHistory(historyKeys, w.history)
    /\ UNCHANGED <<gcVars, alreadyMoved, recruiting, doLockCheck, assignerWait, recVars, engVars, envVars, rangeVars, epoch, rangesToAssign, stopped, nextUID>>

\* variant that sends the range assignments from inside the retry loop
SplitEnqueueInLoop(t) ==
    /\ Active
    /\ t \in DOMAIN splitTasks
    /\ splitTasks[t].pc \in {"txn", "committed"}
    /\ LET task == splitTasks[t]
       IN rangesToAssign' = rangesToAssign
              \o <<RevokeEvent(task.range, task.worker, FALSE)>>
              \o [i \in 1 .. (Len(task.newRanges) - 1) |->
                    AssignEvent(Range(task.newRanges[i], task.newRanges[i + 1]), NoWorker, "Normal")]
    /\ splitTasks' = [splitTasks EXCEPT ![t].pc = "done"]
    /\ UNCHANGED <<gcVars, alreadyMoved, recruiting, doLockCheck, assignerWait, recVars, engVars, envVars, rangeVars, epoch, seqNo, iAmReplaced, stopped, assertFailed, nextUID, dbVars>>

\* "transaction committed, send range assignments"
SplitEnqueue(t) ==
    /\ Active
    /\ t \in DOMAIN splitTasks
    /\ splitTasks[t].pc = "committed"
    /\ LET task == splitTasks[t]
       IN rangesToAssign' = rangesToAssign
              \o <<RevokeEvent(task.range, task.worker, FALSE)>>
              \o [i \in 1 .. (Len(task.newRanges) - 1) |->
                    AssignEvent(Range(task.newRanges[i], task.newRanges[i + 1]), NoWorker, "Normal")]
    /\ splitTasks' = [splitTasks EXCEPT ![t].pc = "done"]
    /\ UNCHANGED <<gcVars, alreadyMoved, recruiting, doLockCheck, assignerWait, recVars, engVars, envVars, rangeVars, epoch, seqNo, iAmReplaced, stopped, assertFailed, nextUID, dbVars>>

----------------------------------------------------------------------------
(* Environment of one Blob Manager *)

\* the cluster controller elects a successor, which raises blobManagerEpochKey
ManagerElected ==
    /\ managerEpoch < epoch + MaxNewManagers
    /\ managerEpoch' = managerEpoch + 1
    /\ UNCHANGED <<gcVars, alreadyMoved, recruiting, doLockCheck, assignerWait, recVars, engVars, envVars, rangeVars, bmVars, splitTasks, granuleLocks, splitBoundaries, splitKeys, historyKeys>>

\* blobManager leaves its loop once iAmReplaced is set; its actors are cancelled
ManagerExits ==
    /\ Running
    /\ iAmReplaced
    /\ stopped' = TRUE
    /\ UNCHANGED <<gcVars, alreadyMoved, recruiting, doLockCheck, assignerWait, recVars, engVars, envVars, rangeVars, epoch, seqNo, iAmReplaced, rangesToAssign, assertFailed, nextUID,
                   splitTasks, dbVars>>

----------------------------------------------------------------------------
(* Specification SpecRanges: repeated updateClientBlobRanges calls *)

\* a Blob Manager that has no work: used by the specifications of single functions
BmIdle ==
    /\ epoch = 1
    /\ seqNo = 1
    /\ iAmReplaced = FALSE
    /\ rangesToAssign = <<>>
    /\ stopped = FALSE
    /\ assertFailed = ""
    /\ nextUID = 0
    /\ splitTasks = <<>>

\* monitorPruneKeys has nothing to do: no prune intent, no blob files
GcIdle ==
    /\ pruneIntents = <<>>
    /\ pruneChangeKey = 0
    /\ prune = [pc |-> "watch", sweeps |-> 0]
    /\ fileKeys = {}

\* no workers, no assignments, no client ranges: used by the specifications of single functions
EngIdle ==
    /\ workerAssignments = <<>>
    /\ workerStats = <<>>
    /\ deadWorkers = {}
    /\ assignsInProgress = <<>>
    /\ inflight = {}
    /\ sent = <<>>
    /\ monitor = <<>>
    /\ lastSeenSeqno = <<>>
    /\ killTasks = <<>>
    /\ recruitTriggers = 0
    /\ bwAlive = {}
    /\ bwList = {}
    /\ changeKey = 0
    /\ granuleMapping = <<>>
    /\ staleCommits = {}
    /\ reportsSent = 0
    /\ recovery = <<>>
    /\ bwGranules = <<>>
    /\ assignerWait = <<>>
    /\ alreadyMoved = {}
    /\ doLockCheck = LockCheckIdle
    /\ recruiting = RecruitingIdle
    /\ GcIdle

DbEmpty ==
    /\ managerEpoch = 1
    /\ granuleLocks = <<>>
    /\ splitBoundaries = <<>>
    /\ splitKeys = <<>>
    /\ historyKeys = <<>>

InitRanges ==
    /\ BmIdle
    /\ DbEmpty
    /\ EngIdle
    /\ knownBlobRanges \in KRMAllBool(RangeKeys)
    /\ rangesToAdd = <<>>
    /\ rangesToRemove = <<>>
    /\ initialKnown = knownBlobRanges.val
    /\ dbActive = knownBlobRanges.val
    /\ netEmitted = [k \in 0 .. (RangeKeys - 1) |-> 0]

UpdateRanges ==
    /\ \E db \in DbResultsInRange :
         /\ \E res \in {updateClientBlobRanges(knownBlobRanges, db, RangeKeys)} :
              /\ knownBlobRanges' = res.known
              /\ rangesToAdd' = res.add
              /\ rangesToRemove' = res.remove
         /\ dbActive' = [k \in 0 .. (RangeKeys - 1) |-> DbActiveAt(db, k)]
    /\ netEmitted' = [k \in 0 .. (RangeKeys - 1) |->
                        netEmitted[k] + CountContaining(rangesToAdd', k)
                                      - CountContaining(rangesToRemove', k)]
    /\ UNCHANGED <<gcVars, alreadyMoved, recruiting, doLockCheck, assignerWait, recVars, initialKnown, bmVars, splitTasks, dbVars, engVars, envVars>>

NextRanges == UpdateRanges

SpecRanges == InitRanges /\ [][NextRanges]_vars

KnownMatchesDb ==
    /\ knownBlobRanges.mapEnd = RangeKeys
    /\ DOMAIN knownBlobRanges.val = 0 .. (RangeKeys - 1)
    /\ 0 \in knownBlobRanges.bounds
    /\ knownBlobRanges.bounds \subseteq 0 .. (RangeKeys - 1)
    /\ \A k \in 0 .. (RangeKeys - 1) : knownBlobRanges.val[k] = dbActive[k]
    /\ \A k \in knownBlobRanges.bounds \ {0} :
          knownBlobRanges.val[k - 1] # knownBlobRanges.val[k]

\* C11: every call of updateClientBlobRanges leaves knownBlobRanges marking as
\* active exactly the keys of the DB's active ranges inside the normal key
\* space, covering the whole normal key space, with no two adjacent intervals
\* holding the same active/inactive value.
C11_KnownMatchesDbCoalesced == [][KnownMatchesDb']_vars

\* known held [0,1) and [2,3) active, the DB result made [1,2) active too: the
\* call emitted added = {[1,2)}, removed = {} and merged the three intervals
C11_Witness ==
    /\ rangesToAdd = <<Range(1, 2)>>
    /\ rangesToRemove = <<>>
    /\ knownBlobRanges.bounds = {0}
    /\ \A k \in 0 .. 2 : knownBlobRanges.val[k]
    /\ KnownMatchesDb

\* knownBlobRanges is {[0,a):F, [a,d):T, [d,end):F}
KnownIsExactly(a, d) ==
    knownBlobRanges = KRMCoalesce(KRMInsert(KRMNew(FALSE, RangeKeys), Range(a, d), TRUE))

\* the DB results that declare exactly [b, c) active with no other boundary:
\* the one the unit test builds and the one krmGetRanges returns over normalKeys
DbExactly(b, c) ==
    {<<[key |-> b, active |-> TRUE], [key |-> c, active |-> FALSE]>>,
     <<[key |-> 0, active |-> FALSE], [key |-> b, active |-> TRUE],
       [key |-> c, active |-> FALSE], [key |-> RangeKeys, active |-> FALSE]>>}

\* every a < b < c < d inside the normal key space
NestedRanges ==
    {q \in (0 .. RangeKeys) \X (0 .. RangeKeys) \X (0 .. RangeKeys) \X (0 .. RangeKeys) :
        q[1] < q[2] /\ q[2] < q[3] /\ q[3] < q[4]}

\* C12 as stated: known = [A,D), DB = [B,C): added = {[B,C)}, removed = {[A,B), [C,D)}.
C12_AddsMiddle ==
    \A q \in NestedRanges : \A db \in DbExactly(q[2], q[3]) :
        KnownIsExactly(q[1], q[4]) =>
            LET res == updateClientBlobRanges(knownBlobRanges, db, RangeKeys)
            IN /\ res.add = <<Range(q[2], q[3])>>
               /\ res.remove = <<Range(q[1], q[2]), Range(q[3], q[4])>>

\* C12: when knownBlobRanges holds exactly [A,D) as active and the DB result
\* declares exactly [B,C) active, A < B < C < D, updateClientBlobRanges emits
\* removed = {[A,B), [C,D)} and added = {}: [B,C) was active already.  Whatever
\* boundaries the DB result carries, nothing is added and the removed ranges
\* cover every key of [A,B) and [C,D) once and no other key.
C12_RemovesEndsAddsNothing ==
    \A q \in NestedRanges :
        KnownIsExactly(q[1], q[4]) =>
            /\ \A db \in DbExactly(q[2], q[3]) :
                  LET res == updateClientBlobRanges(knownBlobRanges, db, RangeKeys)
                  IN /\ res.add = <<>>
                     /\ res.remove = <<Range(q[1], q[2]), Range(q[3], q[4])>>
            /\ \A db \in DbResultsInRange :
                  (\A k \in 0 .. (RangeKeys - 1) : DbActiveAt(db, k) <=> k \in q[2] .. (q[3] - 1)) =>
                      LET res == updateClientBlobRanges(knownBlobRanges, db, RangeKeys)
                      IN /\ res.add = <<>>
                         /\ \A k \in 0 .. (RangeKeys - 1) :
                               CountContaining(res.remove, k) =
                                  IF k \in q[1] .. (q[2] - 1) \/ k \in q[3] .. (q[4] - 1)
                                  THEN 1 ELSE 0

\* the call has been made on known = [0,3) with the DB result [1,2): nothing
\* was added, [0,1) and [2,3) were removed, and known now holds exactly [1,2)
C12_Witness ==
    /\ initialKnown = [k \in 0 .. (RangeKeys - 1) |-> k < 3]
    /\ netEmitted = [k \in 0 .. (RangeKeys - 1) |-> IF k \in {0, 2} THEN -1 ELSE 0]
    /\ rangesToAdd = <<>>
    /\ rangesToRemove = <<Range(0, 1), Range(2, 3)>>
    /\ KnownIsExactly(1, 2)

----------------------------------------------------------------------------
(* Specification SpecSplit: one maybeSplitRange actor of the manager of     *)
(* epoch 2 splitting the granule [0, SplitKeys) held by worker 1            *)

InitSplit ==
    /\ EngIdle
    /\ knownBlobRanges = KRMNew(TRUE, SplitKeys)
    /\ rangesToAdd = <<>>
    /\ rangesToRemove = <<>>
    /\ initialKnown = <<>>
    /\ dbActive = <<>>
    /\ netEmitted = <<>>
    /\ epoch = 2
    /\ seqNo = 3
    /\ iAmReplaced = FALSE
    /\ rangesToAssign = <<>>
    /\ stopped = FALSE
    /\ assertFailed = ""
    /\ nextUID = 1
    /\ splitTasks = <<NewSplitTask(1, Range(0, SplitKeys), 1, 1, 2)>>
    /\ managerEpoch = 2
    /\ \E e \in 1 .. 2 : \E sq \in {2} :
          granuleLocks = (Range(0, SplitKeys) :> [epoch |-> e, seqno |-> sq, granuleID |-> 1])
    /\ splitBoundaries = <<>>
    /\ splitKeys = <<>>
    /\ historyKeys = <<>>

NextSplit ==
    \/ \E t \in DOMAIN splitTasks : SplitRangeDone(t)
    \/ \E t \in DOMAIN splitTasks : SplitAttemptReplaced(t)
    \/ \E t \in DOMAIN splitTasks : SplitAttemptEarlyError(t)
    \/ \E t \in DOMAIN splitTasks : SplitAttempt(t, "committed")
    \/ \E t \in DOMAIN splitTasks : SplitAttempt(t, "not_committed")
    \/ \E t \in DOMAIN splitTasks : SplitAttempt(t, "unknown")
    \/ \E t \in DOMAIN splitTasks : SplitEnqueue(t)
    \/ ManagerElected
    \/ ManagerExits

SpecSplit == InitSplit /\ [][NextSplit]_vars

\* the child Assign events in the queue, in order
QueuedAssigns == SelectSeq(rangesToAssign, LAMBDA a : a.isAssign /\ a.type = "Normal")

IsSubsequenceKeys(sub, full) ==
    /\ \A i \in 1 .. (Len(sub) - 1) : sub[i] < sub[i + 1]
    /\ \A i \in 1 .. Len(sub) : \E j \in 1 .. Len(full) : full[j] = sub[i]

\* C9: a split of n >= 3 splitter boundaries persists min(n, 11) boundaries,
\* a strictly increasing subsequence of the splitter's boundaries with the
\* same first and last key, enqueues exactly one child Assign per consecutive
\* pair of persisted boundaries (at most 10, tiling the parent range), and no
\* ASSERT of downsampleSplit fails.
C9_FanoutCap ==
    /\ assertFailed # "downsampleSplit"
    /\ \A t \in DOMAIN splitTasks :
          LET task == splitTasks[t]
              n == task.splitterSize
              kept == task.newRanges
          IN /\ (task.pc \in {"txn", "committed"} \/ (task.pc = "done" /\ n >= 3 /\ task.commits > 0)) =>
                  /\ Len(kept) = Min(n, maxSplitFanout + 1)
                  /\ IsSubsequenceKeys(kept, task.splitterResult)
                  /\ kept[1] = task.range.begin
                  /\ kept[Len(kept)] = task.range.end
             /\ task.commits > 0 =>
                  splitBoundaries[task.granuleID].keys = {kept[i] : i \in 1 .. Len(kept)}
             /\ (task.pc = "done" /\ task.commits > 0 /\ ~iAmReplaced) =>
                  /\ Len(QueuedAssigns) = Len(kept) - 1
                  /\ Len(QueuedAssigns) <= maxSplitFanout
                  /\ \A i \in 1 .. Len(QueuedAssigns) :
                        QueuedAssigns[i].keyRange = Range(kept[i], kept[i + 1])

\* a splitter result of more than 11 boundaries was downsampled, persisted and enqueued
C9_Witness ==
    \E t \in DOMAIN splitTasks :
        /\ splitTasks[t].pc = "done"
        /\ splitTasks[t].splitterSize >= maxSplitFanout + 2
        /\ Len(QueuedAssigns) = maxSplitFanout
        /\ Cardinality(splitBoundaries[splitTasks[t].granuleID].keys) = maxSplitFanout + 1

\* what the store holds for a split after one successful attempt
SingleShot(task) ==
    [lock |-> [epoch |-> epoch, seqno |-> task.newLockSeqno, granuleID |-> task.granuleID],
     marker |-> <<epoch, task.splitSeqno>>,
     keys |-> {task.newRanges[i] : i \in 1 .. Len(task.newRanges)},
     children |-> {<<task.granuleID, task.newGranuleIDs[i]>> : i \in 1 .. Len(task.newGranuleIDs)},
     history |-> [k \in {<<Range(task.newRanges[i], task.newRanges[i + 1]), task.latestVersion>> :
                            i \in 1 .. (Len(task.newRanges) - 1)} |->
                    [granuleID |-> task.newGranuleIDs[
                                      CHOOSE i \in 1 .. (Len(task.newRanges) - 1) :
                                          task.newRanges[i] = k[1].begin],
                     parentRange |-> task.range,
                     parentVersion |-> task.startVersion]]]

StoreHoldsSplit(task) ==
    \E one \in {SingleShot(task)} :
        /\ granuleLocks[task.range] = one.lock
        /\ task.granuleID \in DOMAIN splitBoundaries
        /\ splitBoundaries[task.granuleID].marker = one.marker
        /\ splitBoundaries[task.granuleID].keys = one.keys
        /\ {c \in DOMAIN splitKeys : c[1] = task.granuleID} = one.children
        /\ \A k \in DOMAIN one.history : k \in DOMAIN historyKeys /\ historyKeys[k] = one.history[k]
        /\ \A k \in DOMAIN historyKeys : historyKeys[k].parentRange = task.range => k \in DOMAIN one.history

\* C7: after any number of failed or unknown-result attempts of the split
\* transaction, once an attempt has committed (and after every later one) the
\* store holds for this split exactly what a single successful attempt
\* writes: the same child granule ids, boundary keys, marker (epoch,
\* splitSeqno), lock seqno and child history entries.
C7_SplitIdempotent ==
    \A t \in DOMAIN splitTasks :
        splitTasks[t].commits > 0 => StoreHoldsSplit(splitTasks[t])

\* the transaction committed twice (an unknown-result commit, then the retry)
\* after a failed attempt
C7_Witness ==
    \E t \in DOMAIN splitTasks :
        /\ splitTasks[t].pc = "done"
        /\ splitTasks[t].commits >= 2
        /\ splitTasks[t].attempts >= 2
        /\ Len(splitTasks[t].newRanges) >= 3

SplitEvents == SelectSeq(rangesToAssign, LAMBDA a : a.type # "Continue")

\* C8: whenever the targeted Revoke of a split parent or an Assign of one of
\* its children is in the queue, the split transaction (lock, marker,
\* boundary keys, child history) has committed; a split whose transaction
\* never commits enqueues nothing.
C8_CommitBeforeEnqueue ==
    \A t \in DOMAIN splitTasks :
        \A i \in 1 .. Len(SplitEvents) :
            Overlaps(SplitEvents[i].keyRange, splitTasks[t].range) =>
                /\ splitTasks[t].commits > 0
                /\ StoreHoldsSplit(splitTasks[t])

\* a split that committed after a failed attempt and enqueued its Revoke and Assigns
C8_Witness ==
    \E t \in DOMAIN splitTasks :
        /\ splitTasks[t].pc = "done"
        /\ splitTasks[t].attempts >= 1
        /\ Len(SplitEvents) >= 3
        /\ ~SplitEvents[1].isAssign
        /\ SplitEvents[1].worker = splitTasks[t].worker

----------------------------------------------------------------------------
(* Assignment engine: rangeAssigner and doRangeAssignment *)

\* variant that takes any registered worker, whatever its load
EligibleWorkersAnyLoad == DOMAIN workerStats

\* eligibleWorkers of pickWorkerForAssign: the workers with the fewest granules
EligibleWorkers ==
    {w \in DOMAIN workerStats : \A v \in DOMAIN workerStats : workerStats[w] <= workerStats[v]}

\* variant that stamps every request with the seqno the manager started with
RequestFirstSeqno(ev, w, sq) ==
    [worker |-> w, isAssign |-> ev.isAssign, keyRange |-> ev.keyRange, epoch |-> epoch,
     seqno |-> 1, type |-> ev.type, dispose |-> ev.dispose]

\* variant that sends the failed assignment back with the type it had
RequeueEventsKeepType(a, workerID) ==
    <<RevokeEvent(a.keyRange, workerID, FALSE), AssignEvent(a.keyRange, NoWorker, a.type)>>

\* doRangeAssignment, an Assign that failed: the Revoke of the worker it was for,
\* then the assignment itself with its worker cleared and its type set to Normal
RequeueEvents(a, workerID) ==
    <<RevokeEvent(a.keyRange, workerID, FALSE), AssignEvent(a.keyRange, NoWorker, "Normal")>>

\* AssignBlobRangeRequest / RevokeBlobRangeRequest built by doRangeAssignment
Request(ev, w, sq) ==
    [worker |-> w, isAssign |-> ev.isAssign, keyRange |-> ev.keyRange, epoch |-> epoch,
     seqno |-> sq, type |-> ev.type, dispose |-> ev.dispose]

\* KeyRangeActorMap: an actor is cancelled once no key refers to it any more
LiveActors(aip, fl) ==
    {i \in fl : sent[i].isAssign => \E k \in DOMAIN aip : aip[k] = i}

AddStat(stats, w, d) ==
    IF w \in DOMAIN stats THEN [stats EXCEPT ![w] = @ + d] ELSE stats

\* rangeAssigner, isAssign branch after the worker is known; sq is the seqno the
\* iteration took when it popped the event
AssignAt(ev, rest, workerId, sq) ==
    /\ workerAssignments' = KRMInsert(workerAssignments, ev.keyRange, workerId)
    /\ workerStats' = IF ev.type # "Continue" THEN AddStat(workerStats, workerId, 1) ELSE workerStats
    /\ IF workerId \notin DOMAIN workerStats
       THEN \* doRangeAssignment throws no_more_servers before the request is sent
            /\ rangesToAssign' = rest \o RequeueEvents(ev, workerId)
            /\ sent' = sent
            /\ assignsInProgress' = [k \in DOMAIN assignsInProgress |->
                                        IF k \in KeysOf(ev.keyRange) THEN 0 ELSE assignsInProgress[k]]
            /\ inflight' = LiveActors(assignsInProgress', inflight)
       ELSE /\ rangesToAssign' = rest
            /\ sent' = Append(sent, Request(ev, workerId, sq))
            /\ assignsInProgress' = [k \in DOMAIN assignsInProgress |->
                                        IF k \in KeysOf(ev.keyRange) THEN Len(sent')
                                        ELSE assignsInProgress[k]]
            /\ inflight' = LiveActors(assignsInProgress', inflight) \cup {Len(sent')}
    /\ UNCHANGED assertFailed

\* rangeAssigner, isAssign branch, for the worker the event names or pickWorkerForAssign returned
AssignTo(ev, rest, workerId) == AssignAt(ev, rest, workerId, seqNo)

\* the Assign at the head of the queue makes rangeAssigner wait in pickWorkerForAssign:
\* it passes the count check, is not a stale Continue, names no worker, and
\* workerStats is empty
WaitsForWorker ==
    /\ rangesToAssign # <<>>
    /\ Head(rangesToAssign).isAssign
    /\ Head(rangesToAssign).worker = NoWorker
    /\ DOMAIN workerStats = {}
    /\ LET its == KRMIntersecting(workerAssignments, Head(rangesToAssign).keyRange)
       IN  /\ Len(its) = 1
           /\ ~ /\ Head(rangesToAssign).type = "Continue"
                /\ \/ Range(its[1].begin, its[1].end) # Head(rangesToAssign).keyRange
                   \/ its[1].value # NoWorker

\* the requests one untargeted revoke sends: one per intersecting range whose
\* owner is in workersById, all for the whole keyRange and with the same seqno
RECURSIVE RevokeRequests(_, _)
RevokeRequests(its, ev) ==
    IF its = <<>> THEN <<>>
    ELSE (IF Head(its).value \in DOMAIN workerStats
          THEN <<Request(ev, Head(its).value, seqNo)>> ELSE <<>>)
         \o RevokeRequests(Tail(its), ev)

\* variant that takes one granule off each owner, however many ranges it owned
RevokeStatsOncePerOwner(its, stats) ==
    [w \in DOMAIN stats |->
        IF \E n \in 1 .. Len(its) : its[n].value = w THEN stats[w] - 1 ELSE stats[w]]

\* rangeAssigner, untargeted revoke: numGranulesAssigned of the owner of each
\* intersecting range, if it is a known worker, goes down by one
RECURSIVE RevokeStats(_, _)
RevokeStats(its, stats) ==
    IF its = <<>> THEN stats
    ELSE RevokeStats(Tail(its), AddStat(stats, Head(its).value, -1))

\* one iteration of rangeAssigner: take the next event and a seqno, update the
\* in-memory maps and start doRangeAssignment, which runs up to its getReply;
\* no event is taken once seqNo has passed cap
RangeAssignerStepUpTo(cap) ==
    /\ Active
    /\ assignerWait = <<>>
    /\ rangesToAssign # <<>>
    /\ seqNo <= cap
    /\ seqNo' = SeqnoAfter(seqNo)
    /\ \E ev \in {Head(rangesToAssign)} : \E rest \in {Tail(rangesToAssign)} :
        \E its \in {KRMIntersecting(workerAssignments, ev.keyRange)} :
         IF ev.isAssign
         THEN IF Len(its) # 1
              THEN /\ assertFailed' = "count == 1"
                   /\ rangesToAssign' = rest
                   /\ UNCHANGED <<workerAssignments, workerStats, assignsInProgress, inflight, sent>>
              ELSE IF /\ ev.type = "Continue"
                      /\ (Range(its[1].begin, its[1].end) # ev.keyRange \/ its[1].value # ev.worker)
              THEN \* out of date re-assign: skip
                   /\ rangesToAssign' = rest
                   /\ UNCHANGED <<workerAssignments, workerStats, assignsInProgress, inflight,
                                  sent, assertFailed>>
              ELSE IF ev.worker # NoWorker
              THEN AssignTo(ev, rest, ev.worker)
              ELSE IF EligibleWorkers = {}
              THEN \* pickWorkerForAssign triggers recruiting and waits for a worker
                   /\ rangesToAssign' = rest
                   /\ UNCHANGED <<workerAssignments, workerStats, assignsInProgress, inflight,
                                  sent, assertFailed>>
              ELSE \E w \in EligibleWorkers : AssignTo(ev, rest, w)
         ELSE /\ rangesToAssign' = rest
              /\ assignsInProgress' = [k \in DOMAIN assignsInProgress |->
                                          IF k \in KeysOf(ev.keyRange) THEN 0 ELSE assignsInProgress[k]]
              /\ IF ev.worker # NoWorker
                 THEN /\ workerStats' = AddStat(workerStats, ev.worker, -1)
                      /\ sent' = IF ev.worker \in DOMAIN workerStats
                                 THEN Append(sent, Request(ev, ev.worker, seqNo)) ELSE sent
                      /\ inflight' = LiveActors(assignsInProgress', inflight)
                                       \cup ((Len(sent) + 1) .. Len(sent'))
                      /\ UNCHANGED <<workerAssignments, assertFailed>>
                 ELSE IF \E i \in 1 .. Len(its) :
                            its[i].begin < ev.keyRange.begin \/ its[i].end > ev.keyRange.end
                 THEN /\ assertFailed' = "revoke truncates range"
                      /\ UNCHANGED <<workerAssignments, workerStats, inflight, sent>>
                 ELSE /\ workerStats' = RevokeStats(its, workerStats)
                      /\ sent' = sent \o RevokeRequests(its, ev)
                      /\ inflight' = LiveActors(assignsInProgress', inflight)
                                       \cup ((Len(sent) + 1) .. Len(sent'))
                      /\ workerAssignments' = KRMInsert(workerAssignments, ev.keyRange, NoWorker)
                      /\ UNCHANGED assertFailed
    /\ assignerWait' = IF WaitsForWorker
                       THEN <<[ev |-> Head(rangesToAssign), seqno |-> seqNo]>> ELSE <<>>
    /\ recruitTriggers' = IF WaitsForWorker THEN recruitTriggers + 1 ELSE recruitTriggers
    /\ UNCHANGED <<gcVars, alreadyMoved, recruiting, doLockCheck, recVars, rangeVars, epoch, iAmReplaced, stopped, nextUID, splitTasks, dbVars,
                   deadWorkers, monitor, lastSeenSeqno, killTasks, envVars>>

RangeAssignerStep == RangeAssignerStepUpTo(MaxSeqNo)

\* pickWorkerForAssign returns once workerStats is not empty, and the iteration of
\* rangeAssigner that was waiting goes on with the seqno it took
PickWorkerResume ==
    /\ Active
    /\ assignerWait # <<>>
    /\ DOMAIN workerStats # {}
    /\ \E w \in EligibleWorkers :
         AssignAt(assignerWait[1].ev, rangesToAssign, w, assignerWait[1].seqno)
    /\ assignerWait' = <<>>
    /\ UNCHANGED <<gcVars, alreadyMoved, recruiting, doLockCheck, recVars, rangeVars, epoch, seqNo, iAmReplaced, stopped, nextUID, splitTasks,
                   dbVars, deadWorkers, monitor, lastSeenSeqno, killTasks, recruitTriggers, envVars>>

\* initializeBlobWorker got its reply: the new worker is registered
WorkerRecruited(w) ==
    /\ Active
    /\ w \notin DOMAIN workerStats
    /\ w \notin deadWorkers
    /\ workerStats' = [v \in DOMAIN workerStats \cup {w} |->
                          IF v = w THEN 0 ELSE workerStats[v]]
    /\ recruiting' = [recruiting EXCEPT !.workerAddresses = @ \cup {BwAddr(w)},
                                        !.usedIds = @ \cup {w}]
    /\ bwAlive' = bwAlive \cup {w}
    /\ bwList' = bwList \cup {w}
    /\ UNCHANGED <<gcVars, alreadyMoved, doLockCheck, assignerWait, recVars, rangeVars, bmVars, splitTasks, dbVars,
                   workerAssignments, deadWorkers, assignsInProgress, inflight, sent, monitor,
                   lastSeenSeqno, killTasks, recruitTriggers, changeKey, granuleMapping,
                   staleCommits, reportsSent>>

\* the worker answered the request.  Accepting an Assign, the worker takes the
\* granule lock with the request's (epoch, seqno) unless a newer owner holds it.
RpcReplyOk(i) ==
    /\ Active
    /\ i \in inflight
    /\ sent[i].worker \in bwAlive
    /\ inflight' = inflight \ {i}
    /\ IF sent[i].isAssign
       THEN LET r == sent[i].keyRange
                held == r \in DOMAIN granuleLocks
            IN IF held /\ ~(granuleLocks[r].epoch < epoch
                            \/ (granuleLocks[r].epoch = epoch /\ granuleLocks[r].seqno < sent[i].seqno))
               THEN UNCHANGED granuleLocks
               ELSE granuleLocks' =
                      [x \in DOMAIN granuleLocks \cup {r} |->
                         IF x = r
                         THEN [epoch |-> sent[i].epoch, seqno |-> sent[i].seqno,
                               granuleID |-> IF held THEN granuleLocks[r].granuleID
                                             ELSE 100 + sent[i].seqno]
                         ELSE granuleLocks[x]]
       ELSE UNCHANGED granuleLocks
    /\ UNCHANGED <<gcVars, alreadyMoved, recruiting, doLockCheck, assignerWait, recVars, rangeVars, bmVars, splitTasks, managerEpoch, splitBoundaries, splitKeys,
                   historyKeys, workerAssignments, workerStats, deadWorkers, assignsInProgress,
                   sent, monitor, lastSeenSeqno, killTasks, recruitTriggers, envVars>>

\* the request failed because the worker is gone (broken_promise and the like)
RpcReplyFailed(i) ==
    /\ Active
    /\ i \in inflight
    /\ sent[i].worker \notin bwAlive
    /\ inflight' = inflight \ {i}
    /\ rangesToAssign' =
         IF sent[i].isAssign
         THEN rangesToAssign \o RequeueEvents(sent[i], sent[i].worker)
         ELSE IF sent[i].dispose
         THEN Append(rangesToAssign, RevokeEvent(sent[i].keyRange, NoWorker, TRUE))
         ELSE rangesToAssign
    /\ UNCHANGED <<gcVars, alreadyMoved, recruiting, doLockCheck, assignerWait, recVars, rangeVars, epoch, seqNo, iAmReplaced, stopped, assertFailed, nextUID,
                   splitTasks, dbVars, workerAssignments, workerStats, deadWorkers,
                   assignsInProgress, sent, monitor, lastSeenSeqno, killTasks, recruitTriggers,
                   envVars>>

\* the worker answered blob_manager_replaced: it has heard of a newer manager
RpcReplyReplaced(i) ==
    /\ Active
    /\ i \in inflight
    /\ sent[i].worker \in bwAlive
    /\ managerEpoch > epoch
    /\ inflight' = inflight \ {i}
    /\ iAmReplaced' = TRUE
    /\ UNCHANGED <<gcVars, alreadyMoved, recruiting, doLockCheck, assignerWait, recVars, rangeVars, epoch, seqNo, rangesToAssign, stopped, assertFailed, nextUID,
                   splitTasks, dbVars, workerAssignments, workerStats, deadWorkers,
                   assignsInProgress, sent, monitor, lastSeenSeqno, killTasks, recruitTriggers,
                   envVars>>

----------------------------------------------------------------------------
(* monitorClientRanges and writeInitialGranuleMapping *)

\* krmGetRanges(blobRangeKeys, normalKeys): the boundaries of the client's
\* ranges with their values, closed by normalKeys.end
ClientDbResult ==
    LET bs == SortedSeq({0, NormalEnd} \cup
                        {k \in 1 .. (NormalEnd - 1) : dbActive[k - 1] # dbActive[k]})
    IN [i \in 1 .. Len(bs) |->
          [key |-> bs[i], active |-> IF bs[i] < NormalEnd THEN dbActive[bs[i]] ELSE FALSE]]

RECURSIVE SetMappingRanges(_, _, _, _)
SetMappingRanges(m, boundaries, i, v) ==
    IF i > Len(boundaries) - 1 THEN m
    ELSE SetMappingRanges(KRMInsert(m, Range(boundaries[i], boundaries[i + 1]), v),
                          boundaries, i + 1, v)

\* the blob range change key moved: read the client ranges, diff them against
\* knownBlobRanges and send a dispose Revoke for every removed range
MonitorRead ==
    /\ Active
    /\ monitor.pc = "watch"
    /\ changeKey # monitor.lastChange
    /\ \E res \in {updateClientBlobRanges(knownBlobRanges, ClientDbResult, NormalEnd)} :
         /\ knownBlobRanges' = res.known
         /\ rangesToAdd' = res.add
         /\ rangesToRemove' = res.remove
         /\ rangesToAssign' = rangesToAssign \o
                [i \in 1 .. Len(res.remove) |-> RevokeEvent(res.remove[i], NoWorker, TRUE)]
         /\ monitor' = IF res.add = <<>>
                       THEN [monitor EXCEPT !.ckvBegin = changeKey, !.lastChange = changeKey]
                       ELSE [monitor EXCEPT !.ckvBegin = changeKey, !.pc = "write", !.idx = 1]
    /\ UNCHANGED <<gcVars, alreadyMoved, recruiting, doLockCheck, assignerWait, recVars, initialKnown, dbActive, netEmitted, epoch, seqNo, iAmReplaced, stopped,
                   assertFailed, nextUID, splitTasks, dbVars, workerAssignments, workerStats,
                   deadWorkers, assignsInProgress, inflight, sent, lastSeenSeqno, killTasks,
                   recruitTriggers, envVars>>

\* splitRange returned for the next added range: writeInitialGranuleMapping
\* commits the boundaries with no worker, then one Assign per granule is sent
MonitorWrite ==
    /\ Active
    /\ monitor.pc = "write"
    /\ \E splits \in SplitRangeResults(rangesToAdd[monitor.idx]) :
         /\ granuleMapping' = SetMappingRanges(granuleMapping, splits, 1, NoWorker)
         /\ rangesToAssign' = rangesToAssign \o
                [i \in 1 .. (Len(splits) - 1) |->
                    AssignEvent(Range(splits[i], splits[i + 1]), NoWorker, "Normal")]
    /\ staleCommits' = IF managerEpoch > epoch
                       THEN staleCommits \cup {"writeInitialGranuleMapping"}
                       ELSE staleCommits
    /\ monitor' = [monitor EXCEPT !.pc = "onEmpty"]
    /\ UNCHANGED <<gcVars, alreadyMoved, recruiting, doLockCheck, assignerWait, recVars, rangeVars, epoch, seqNo, iAmReplaced, stopped, assertFailed, nextUID,
                   splitTasks, dbVars, engVarsButMonitor, bwAlive, bwList, changeKey, reportsSent>>

\* rangesToAssign.onEmpty(): go on with the next added range, or finish the pass
MonitorOnEmpty ==
    /\ Active
    /\ monitor.pc = "onEmpty"
    /\ rangesToAssign = <<>>
    /\ monitor' = IF monitor.idx < Len(rangesToAdd)
                  THEN [monitor EXCEPT !.pc = "write", !.idx = @ + 1]
                  ELSE [monitor EXCEPT !.pc = "watch", !.idx = 0, !.lastChange = monitor.ckvBegin]
    /\ UNCHANGED <<gcVars, alreadyMoved, recruiting, doLockCheck, assignerWait, recVars, rangeVars, bmVars, splitTasks, dbVars, engVarsButMonitor, envVars>>

\* a client sets or clears blob ranges and bumps the change key
ClientChange ==
    /\ Active
    /\ changeKey < MaxClientChanges
    /\ \E a \in [0 .. (NormalEnd - 1) -> BOOLEAN] :
         /\ a # dbActive
         /\ dbActive' = a
    /\ changeKey' = changeKey + 1
    /\ UNCHANGED <<gcVars, alreadyMoved, recruiting, doLockCheck, assignerWait, recVars, knownBlobRanges, rangesToAdd, rangesToRemove, initialKnown, netEmitted,
                   bmVars, splitTasks, dbVars, engVars, bwAlive, bwList, granuleMapping,
                   staleCommits, reportsSent>>

----------------------------------------------------------------------------
(* monitorBlobWorkerStatus *)

\* the reply names exactly one entry of workerAssignments, owned by its sender
ReplyOwned(w, r) ==
    LET curr == KRMRangeContaining(workerAssignments, r.begin)
    IN curr.begin = r.begin /\ curr.end = r.end /\ curr.value = w

\* the reply is the last one this monitor handled for the range
ReplyRepeats(w, r, repEpoch, repSeqno) ==
    LET last == KRMRangeContaining(lastSeenSeqno[w], r.begin)
    IN last.begin = r.begin /\ last.end = r.end /\ last.value = <<repEpoch, repSeqno>>

\* a monitor that returns once it has seen a newer epoch
HandleReplyUnlessNewer(w, r, repEpoch) ==
    LET repSeqno == granuleLocks[r].seqno
    IN IF repEpoch <= epoch /\ ReplyOwned(w, r) /\ ~ReplyRepeats(w, r, repEpoch, repSeqno)
       THEN /\ lastSeenSeqno' = [lastSeenSeqno EXCEPT
                                   ![w] = KRMInsert(@, r, <<repEpoch, repSeqno>>)]
            /\ splitTasks' = Append(splitTasks,
                                    NewSplitTask(w, r, granuleLocks[r].granuleID, 1, 2))
       ELSE UNCHANGED <<lastSeenSeqno, splitTasks>>

\* a monitor that does not compare the reply with lastSeenSeqno
HandleReplyNoDedup(w, r, repEpoch) ==
    LET repSeqno == granuleLocks[r].seqno
    IN IF ReplyOwned(w, r)
       THEN /\ lastSeenSeqno' = [lastSeenSeqno EXCEPT
                                   ![w] = KRMInsert(@, r, <<repEpoch, repSeqno>>)]
            /\ splitTasks' = Append(splitTasks,
                                    NewSplitTask(w, r, granuleLocks[r].granuleID, 1, 2))
       ELSE UNCHANGED <<lastSeenSeqno, splitTasks>>

\* what the monitor does with a reply after the epoch test: the ownership test,
\* the comparison with lastSeenSeqno, then addActor.send(maybeSplitRange(...))
HandleReply(w, r, repEpoch) ==
    LET repSeqno == granuleLocks[r].seqno
    IN IF ReplyOwned(w, r) /\ ~ReplyRepeats(w, r, repEpoch, repSeqno)
       THEN /\ lastSeenSeqno' = [lastSeenSeqno EXCEPT
                                   ![w] = KRMInsert(@, r, <<repEpoch, repSeqno>>)]
            /\ splitTasks' = Append(splitTasks,
                                    NewSplitTask(w, r, granuleLocks[r].granuleID, 1, 2))
       ELSE UNCHANGED <<lastSeenSeqno, splitTasks>>

\* the epochs a worker can put in a reply: the one it was assigned under, or the
\* one of a newer manager it has heard from
ReplyEpochs == {epoch} \cup (IF managerEpoch > epoch THEN {managerEpoch} ELSE {})

\* a worker that holds the granule lock of a range it was assigned asks for a
\* split in a reply that carries repEpoch; at most limit replies are delivered
StatusReplyWith(w, r, limit, repEpoch) ==
    /\ Active
    /\ reportsSent < limit
    /\ w \in bwAlive
    /\ w \in DOMAIN workerStats
    /\ r \in DOMAIN granuleLocks
    /\ \E i \in 1 .. Len(sent) :
          /\ sent[i].isAssign /\ sent[i].worker = w /\ sent[i].keyRange = r
          /\ granuleLocks[r].epoch = epoch /\ granuleLocks[r].seqno = sent[i].seqno
    /\ reportsSent' = reportsSent + 1
    /\ repEpoch \in ReplyEpochs
    /\ iAmReplaced' = (iAmReplaced \/ repEpoch > epoch)
    /\ HandleReply(w, r, repEpoch)
    /\ UNCHANGED <<gcVars, alreadyMoved, recruiting, doLockCheck, assignerWait, recVars, rangeVars, epoch, seqNo, rangesToAssign, stopped, assertFailed, nextUID,
                   dbVars, workerAssignments, workerStats, deadWorkers, assignsInProgress,
                   inflight, sent, monitor, killTasks, recruitTriggers,
                   bwAlive, bwList, changeKey, granuleMapping, staleCommits>>

StatusReply(w, r, limit) == \E repEpoch \in ReplyEpochs : StatusReplyWith(w, r, limit, repEpoch)

StatusReport(w, r) == StatusReply(w, r, MaxReports)

----------------------------------------------------------------------------
(* monitorBlobWorker, killBlobWorker, deregisterBlobWorker *)

\* a blob worker process dies; some registered worker stays alive
WorkerFails(w) ==
    /\ Active
    /\ w \in bwAlive
    /\ NumWorkers - Cardinality(bwAlive) < MaxFailures
    /\ \E v \in bwAlive \ {w} : v \in DOMAIN workerStats
    /\ bwAlive' = bwAlive \ {w}
    /\ UNCHANGED <<gcVars, alreadyMoved, recruiting, doLockCheck, assignerWait, recVars, rangeVars, bmVars, splitTasks, dbVars, engVars, bwList, changeKey,
                   granuleMapping, staleCommits, reportsSent>>

RECURSIVE MoveEvents(_, _)
MoveEvents(its, w) ==
    IF its = <<>> THEN <<>>
    ELSE (IF Head(its).value = w
          THEN <<RevokeEvent(Range(Head(its).begin, Head(its).end), NoWorker, FALSE),
                 AssignEvent(Range(Head(its).begin, Head(its).end), NoWorker, "Normal")>>
          ELSE <<>>)
         \o MoveEvents(Tail(its), w)

\* waitFailure fired in monitorBlobWorker: killBlobWorker(registered = true) up to its first wait
KillStart(w) ==
    /\ Active
    /\ w \in DOMAIN workerStats
    /\ w \notin bwAlive
    /\ killTasks[w] = "none"
    /\ deadWorkers' = deadWorkers \cup {w}
    /\ workerStats' = [v \in DOMAIN workerStats \ {w} |-> workerStats[v]]
    /\ rangesToAssign' = rangesToAssign \o MoveEvents(KRMRanges(workerAssignments), w)
    /\ killTasks' = [killTasks EXCEPT ![w] = "deregistering"]
    /\ recruiting' = [recruiting EXCEPT !.workerAddresses = @ \ {BwAddr(w)}]
    /\ UNCHANGED <<gcVars, alreadyMoved, doLockCheck, assignerWait, recVars, rangeVars, epoch, seqNo, iAmReplaced, stopped, assertFailed, nextUID,
                   splitTasks, dbVars, workerAssignments, assignsInProgress, inflight, sent,
                   monitor, lastSeenSeqno, recruitTriggers, envVars>>

\* variant whose transaction commits without clearing the worker list key
DeregisterCommitKeepsKey(w) ==
    /\ Active
    /\ killTasks[w] = "deregistering"
    /\ IF managerEpoch # epoch
       THEN /\ iAmReplaced' = TRUE
            /\ killTasks' = [killTasks EXCEPT ![w] = "error"]
       ELSE /\ killTasks' = [killTasks EXCEPT ![w] = "deregistered"]
            /\ UNCHANGED iAmReplaced
    /\ UNCHANGED <<gcVars, alreadyMoved, recruiting, doLockCheck, assignerWait, recVars, rangeVars, epoch, seqNo, rangesToAssign, stopped, assertFailed, nextUID,
                   splitTasks, dbVars, workerAssignments, workerStats, deadWorkers,
                   assignsInProgress, inflight, sent, monitor, lastSeenSeqno, recruitTriggers,
                   envVars>>

\* the transaction of deregisterBlobWorker: checkManagerLock, clear the worker list key
DeregisterCommit(w) ==
    /\ Active
    /\ killTasks[w] = "deregistering"
    /\ IF managerEpoch # epoch
       THEN /\ iAmReplaced' = TRUE
            /\ killTasks' = [killTasks EXCEPT ![w] = "error"]
            /\ UNCHANGED bwList
       ELSE /\ bwList' = bwList \ {w}
            /\ killTasks' = [killTasks EXCEPT ![w] = "deregistered"]
            /\ UNCHANGED iAmReplaced
    /\ UNCHANGED <<gcVars, alreadyMoved, recruiting, doLockCheck, assignerWait, recVars, rangeVars, epoch, seqNo, rangesToAssign, stopped, assertFailed, nextUID,
                   splitTasks, dbVars, workerAssignments, workerStats, deadWorkers,
                   assignsInProgress, inflight, sent, monitor, lastSeenSeqno, recruitTriggers,
                   bwAlive, changeKey, granuleMapping, staleCommits, reportsSent>>

\* deregister is done and rangesToAssign is empty: trigger recruiting, forget the dead worker
KillFinish(w) ==
    /\ Active
    /\ killTasks[w] = "deregistered"
    /\ rangesToAssign = <<>>
    /\ recruitTriggers' = recruitTriggers + 1
    /\ deadWorkers' = deadWorkers \ {w}
    /\ killTasks' = [killTasks EXCEPT ![w] = "done"]
    /\ UNCHANGED <<gcVars, alreadyMoved, recruiting, doLockCheck, assignerWait, recVars, rangeVars, bmVars, splitTasks, dbVars, workerAssignments, workerStats,
                   assignsInProgress, inflight, sent, monitor, lastSeenSeqno, envVars>>

----------------------------------------------------------------------------
(* Specification Spec: one Blob Manager of epoch 1 in its steady state, the *)
(* client range [0, NormalEnd) assigned to worker 1 as one granule          *)

Workers == 1 .. NumWorkers

AllKeys == Range(0, NormalEnd)

Init ==
    /\ knownBlobRanges = KRMNew(TRUE, NormalEnd)
    /\ rangesToAdd = <<>>
    /\ rangesToRemove = <<>>
    /\ initialKnown = <<>>
    /\ dbActive = [k \in 0 .. (NormalEnd - 1) |-> TRUE]
    /\ netEmitted = <<>>
    /\ epoch = 1
    /\ seqNo = 2
    /\ iAmReplaced = FALSE
    /\ rangesToAssign = <<>>
    /\ stopped = FALSE
    /\ assertFailed = ""
    /\ nextUID = 0
    /\ splitTasks = <<>>
    /\ managerEpoch = 1
    /\ granuleLocks = (AllKeys :> [epoch |-> 1, seqno |-> 1, granuleID |-> 101])
    /\ splitBoundaries = <<>>
    /\ splitKeys = <<>>
    /\ historyKeys = <<>>
    /\ workerAssignments = KRMNew(1, NormalEnd)
    /\ workerStats = [w \in Workers |-> IF w = 1 THEN 1 ELSE 0]
    /\ deadWorkers = {}
    /\ assignsInProgress = [k \in 0 .. (NormalEnd - 1) |-> 0]
    /\ inflight = {}
    /\ sent = <<[worker |-> 1, isAssign |-> TRUE, keyRange |-> AllKeys, epoch |-> 1,
                 seqno |-> 1, type |-> "Normal", dispose |-> FALSE]>>
    /\ monitor = [pc |-> "watch", idx |-> 0, ckvBegin |-> 0, lastChange |-> 0]
    /\ lastSeenSeqno = [w \in Workers |-> KRMNew(<<0, 0>>, NormalEnd)]
    /\ killTasks = [w \in Workers |-> "none"]
    /\ recruitTriggers = 0
    /\ bwAlive = Workers
    /\ bwList = Workers
    /\ changeKey = 0
    /\ granuleMapping = KRMNew(NoWorker, NormalEnd)
    /\ staleCommits = {}
    /\ reportsSent = 0
    /\ recovery = <<>>
    /\ bwGranules = <<>>
    /\ assignerWait = <<>>
    /\ alreadyMoved = {}
    /\ doLockCheck = LockCheckIdle
    /\ recruiting = RecruitingIdle
    /\ GcIdle

Next ==
    \/ ClientChange
    \/ MonitorRead
    \/ MonitorWrite
    \/ MonitorOnEmpty
    \/ RangeAssignerStep
    \/ \E i \in inflight : RpcReplyOk(i)
    \/ \E i \in inflight : RpcReplyReplaced(i)
    \/ \E w \in Workers : \E r \in DOMAIN granuleLocks : StatusReport(w, r)
    \/ \E t \in DOMAIN splitTasks : SplitRangeDone(t)
    \/ \E t \in DOMAIN splitTasks : SplitAttemptReplaced(t)
    \/ \E t \in DOMAIN splitTasks : SplitAttempt(t, "committed")
    \/ \E t \in DOMAIN splitTasks : SplitEnqueue(t)
    \/ ManagerElected
    \/ ManagerExits

Spec == Init /\ [][Next]_vars

\* C1: no transaction of this Blob Manager commits a write once the persisted
\* manager epoch is greater than its own epoch.
C1_NoStaleCommit == staleCommits = {}

\* worker w has been sent an Assign covering key k and no later Revoke covering k
Outstanding(w, k) ==
    \E i \in 1 .. Len(sent) :
        /\ sent[i].isAssign /\ sent[i].worker = w /\ k \in KeysOf(sent[i].keyRange)
        /\ \A j \in (i + 1) .. Len(sent) :
              ~(~sent[j].isAssign /\ sent[j].worker = w /\ k \in KeysOf(sent[j].keyRange))

LiveWorkers == bwAlive \cap DOMAIN workerStats

\* C3: for every key at most one live worker has been sent an Assign covering
\* the key with no later Revoke covering the key sent to that worker.
C3_SingleOutstanding ==
    \A k \in 0 .. (NormalEnd - 1) :
        Cardinality({w \in LiveWorkers : Outstanding(w, k)}) <= 1

\* nothing is queued or in progress, no failed worker is waiting to be killed,
\* the client's last change has been processed, and a live worker exists
Quiescent ==
    /\ Active
    /\ rangesToAssign = <<>>
    /\ inflight = {}
    /\ \A t \in DOMAIN splitTasks : splitTasks[t].pc \in {"done", "error"}
    /\ \A w \in DOMAIN killTasks : killTasks[w] \in {"none", "done"}
    /\ DOMAIN workerStats \subseteq bwAlive
    /\ monitor.pc = "watch"
    /\ monitor.lastChange = changeKey
    /\ LiveWorkers # {}

\* C4: at every quiescent point a key is mapped to a live worker exactly when
\* it lies in a client-active blob range, and to no worker otherwise.
C4_CoverageMatchesActive ==
    Quiescent =>
        \A k \in 0 .. (NormalEnd - 1) :
            IF dbActive[k]
            THEN workerAssignments.val[k] \in LiveWorkers
            ELSE workerAssignments.val[k] = NoWorker

----------------------------------------------------------------------------
(* Specification SpecPick: a manager that starts with no client range and *)
(* workers that register while it runs                                     *)

\* a manager that starts with no client range and any set of registered, idle workers
InitPick ==
    /\ knownBlobRanges = KRMNew(FALSE, NormalEnd)
    /\ rangesToAdd = <<>>
    /\ rangesToRemove = <<>>
    /\ initialKnown = <<>>
    /\ dbActive = [k \in 0 .. (NormalEnd - 1) |-> FALSE]
    /\ netEmitted = <<>>
    /\ epoch = 1
    /\ seqNo = 1
    /\ iAmReplaced = FALSE
    /\ rangesToAssign = <<>>
    /\ stopped = FALSE
    /\ assertFailed = ""
    /\ nextUID = 0
    /\ splitTasks = <<>>
    /\ managerEpoch = 1
    /\ granuleLocks = <<>>
    /\ splitBoundaries = <<>>
    /\ splitKeys = <<>>
    /\ historyKeys = <<>>
    /\ workerAssignments = KRMNew(NoWorker, NormalEnd)
    /\ \E registered \in SUBSET Workers :
         /\ workerStats = [w \in registered |-> 0]
         /\ bwAlive = registered
         /\ bwList = registered
    /\ deadWorkers = {}
    /\ assignsInProgress = [k \in 0 .. (NormalEnd - 1) |-> 0]
    /\ inflight = {}
    /\ sent = <<>>
    /\ monitor = [pc |-> "watch", idx |-> 0, ckvBegin |-> 0, lastChange |-> 0]
    /\ lastSeenSeqno = [w \in Workers |-> KRMNew(<<0, 0>>, NormalEnd)]
    /\ killTasks = [w \in Workers |-> "none"]
    /\ recruitTriggers = 0
    /\ changeKey = 0
    /\ granuleMapping = KRMNew(NoWorker, NormalEnd)
    /\ staleCommits = {}
    /\ reportsSent = 0
    /\ recovery = <<>>
    /\ bwGranules = <<>>
    /\ assignerWait = <<>>
    /\ alreadyMoved = {}
    /\ doLockCheck = LockCheckIdle
    /\ recruiting = RecruitingIdle
    /\ GcIdle

NextPick ==
    \/ ClientChange
    \/ MonitorRead
    \/ MonitorWrite
    \/ MonitorOnEmpty
    \/ RangeAssignerStep
    \/ PickWorkerResume
    \/ \E w \in Workers : WorkerRecruited(w)
    \/ \E i \in inflight : RpcReplyOk(i)
    \/ \E i \in inflight : RpcReplyReplaced(i)
    \/ ManagerElected
    \/ ManagerExits

SpecPick == InitPick /\ [][NextPick]_vars

\* pickWorkerForAssign is woken by recruitingStream.onChange() and foundBlobWorkers,
\* and the recruiter keeps running while the manager does
FairSpecPick == SpecPick /\ WF_vars(PickWorkerResume)

-----------------------------------------------------------------------------
(* Specification SpecKill: the same manager with blob workers failing and  *)
(* granules splitting while the client ranges stay as they are             *)

NextKill ==
    \/ RangeAssignerStep
    \/ \E i \in inflight : RpcReplyOk(i)
    \/ \E i \in inflight : RpcReplyFailed(i)
    \/ \E i \in inflight : RpcReplyReplaced(i)
    \/ \E w \in Workers : \E r \in DOMAIN granuleLocks : StatusReport(w, r)
    \/ \E t \in DOMAIN splitTasks : SplitRangeDone(t)
    \/ \E t \in DOMAIN splitTasks : SplitAttemptReplaced(t)
    \/ \E t \in DOMAIN splitTasks : SplitAttempt(t, "committed")
    \/ \E t \in DOMAIN splitTasks : SplitEnqueue(t)
    \/ \E w \in Workers : WorkerFails(w)
    \/ \E w \in Workers : KillStart(w)
    \/ \E w \in Workers : DeregisterCommit(w)
    \/ \E w \in Workers : KillFinish(w)
    \/ ManagerElected
    \/ ManagerExits

SpecKill == Init /\ [][NextKill]_vars

\* a step of the range assigner or of killBlobWorker
KillProgress ==
    \/ RangeAssignerStep
    \/ \E w \in Workers : (KillStart(w) \/ DeregisterCommit(w) \/ KillFinish(w))

\* the actor collection does not starve the range assigner, the failure monitors
\* and killBlobWorker for ever
FairSpecKill == SpecKill /\ WF_vars(KillProgress)

SameWorkerOverlap(i, j) ==
    /\ sent[i].worker = sent[j].worker
    /\ Overlaps(sent[i].keyRange, sent[j].keyRange)

\* C2 as stated: the requests dispatched to one worker for overlapping ranges
\* carry strictly increasing seqnos in dispatch order.
C2_StrictlyIncreasing ==
    \A i \in 1 .. Len(sent) : \A j \in (i + 1) .. Len(sent) :
        SameWorkerOverlap(i, j) => sent[i].seqno < sent[j].seqno

\* C2: the requests dispatched to one worker for overlapping ranges carry
\* non-decreasing seqnos in dispatch order, and two of them carry the same
\* seqno only when both are the Revoke requests that one untargeted Revoke
\* event sent for several ranges the worker owned (same keyRange and dispose).
C2_NonDecreasing ==
    \A i \in 1 .. Len(sent) : \A j \in (i + 1) .. Len(sent) :
        SameWorkerOverlap(i, j) =>
            \/ sent[i].seqno < sent[j].seqno
            \/ /\ sent[i].seqno = sent[j].seqno
               /\ ~sent[i].isAssign /\ ~sent[j].isAssign
               /\ sent[i].keyRange = sent[j].keyRange
               /\ sent[i].dispose = sent[j].dispose

\* one untargeted Revoke sent two requests with one seqno to a worker that
\* had been sent Assigns with smaller seqnos for both ranges
C2_Witness ==
    \E i \in 1 .. Len(sent) : \E j \in (i + 1) .. Len(sent) :
        /\ SameWorkerOverlap(i, j)
        /\ sent[i].seqno = sent[j].seqno
        /\ \E a \in 1 .. (i - 1) : \E b \in 1 .. (i - 1) :
              /\ a # b
              /\ sent[a].isAssign /\ sent[b].isAssign
              /\ sent[a].worker = sent[i].worker /\ sent[b].worker = sent[i].worker
              /\ sent[a].seqno < sent[b].seqno /\ sent[b].seqno < sent[i].seqno

\* the manager has finished with failed worker w
KillDone(w) ==
    /\ killTasks[w] = "done"
    /\ rangesToAssign = <<>>
    /\ \A k \in 0 .. (NormalEnd - 1) : workerAssignments.val[k] \in LiveWorkers
    /\ w \notin bwList
    /\ recruitTriggers > 0

\* C5: once worker w has failed (another worker stays live), the manager, for
\* as long as it stays the manager and takes events, reaches a point where the
\* queue is drained, no entry of workerAssignments maps to w, every range is
\* mapped to a live worker, w's worker list key is cleared and recruiting has
\* been triggered.
C5_FailedWorkerCleaned ==
    \A w \in Workers :
        (w \notin bwAlive) ~> (KillDone(w) \/ iAmReplaced \/ seqNo > MaxSeqNo)

\* the failed worker owned a granule and has been cleaned up by a running manager
C5_Witness ==
    \E w \in Workers :
        /\ w \notin bwAlive
        /\ KillDone(w)
        /\ Active
        /\ \E i \in 1 .. Len(sent) : sent[i].isAssign /\ sent[i].worker = w
        /\ \E i \in 1 .. Len(sent) : sent[i].isAssign /\ sent[i].worker \in LiveWorkers

----------------------------------------------------------------------------
(* recoverBlobManager: the next Blob Manager rebuilds the assignment from  *)
(* the in-progress splits, the workers' answers and the persisted mapping  *)

\* variant that orders two assignments by their epochs alone
SupersededByEpochOnly(old, newEpoch, newSeqno) ==
    old[2] >= newEpoch

\* addAssignment: the map entry old = <<worker, epoch, seqno>> is newer than (newEpoch, newSeqno)
Superseded(old, newEpoch, newSeqno) ==
    old[2] > newEpoch \/ (old[2] = newEpoch /\ old[3] > newSeqno)

RECURSIVE InsertAll(_, _)
InsertAll(m, items) ==
    IF items = <<>> THEN m
    ELSE InsertAll(KRMInsert(m, Head(items).range, Head(items).value), Tail(items))

\* addAssignment(map, newRange, newId, newEpoch, newSeqno, outOfDate); track is
\* outOfDate != nullptr; clash is the failure of its ASSERT
addAssignment(map, newRange, newId, newEpoch, newSeqno, outOfDate, track) ==
    LET its == KRMIntersecting(map, newRange)
        idx == [i \in 1 .. Len(its) |-> i]
        IsNewer(i) == Superseded(its[i].value, newEpoch, newSeqno)
        Disagrees(i) ==
            /\ IsNewer(i)
            /\ newId # its[i].value[1] /\ newId # NoWorker /\ newEpoch = 0 /\ newSeqno = 1
            /\ its[i].begin = newRange.begin /\ its[i].end = newRange.end
        allNewer == \A i \in 1 .. Len(its) : IsNewer(i) /\ ~Disagrees(i)
        newerIdx == SelectSeq(idx, LAMBDA i : IsNewer(i))
        newer == [j \in 1 .. Len(newerIdx) |->
                    [range |-> Range(its[newerIdx[j]].begin, its[newerIdx[j]].end),
                     value |-> IF Disagrees(newerIdx[j])
                               THEN <<NoWorker, its[newerIdx[j]].value[2], its[newerIdx[j]].value[3]>>
                               ELSE its[newerIdx[j]].value]]
        olderIdx == SelectSeq(idx, LAMBDA i :
                        /\ ~IsNewer(i) /\ track /\ its[i].value[1] # NoWorker
                        /\ (its[i].value[2] < newEpoch
                            \/ (its[i].value[2] = newEpoch /\ its[i].value[3] < newSeqno)))
        older == [j \in 1 .. Len(olderIdx) |->
                    <<its[olderIdx[j]].value[1],
                      Range(its[olderIdx[j]].begin, its[olderIdx[j]].end)>>]
        self == IF track /\ newId # NoWorker /\ (allNewer \/ Len(newer) > 0)
                THEN <<(<<newId, newRange>>)>> ELSE <<>>
    IN [map |-> IF allNewer THEN map
                ELSE InsertAll(KRMInsert(map, newRange, <<newId, newEpoch, newSeqno>>), newer),
        outOfDate |-> outOfDate \o older \o self,
        clash |-> \E i \in 1 .. Len(its) :
                     /\ ~IsNewer(i) /\ newId # NoWorker
                     /\ its[i].value[2] = newEpoch /\ its[i].value[3] = newSeqno]

\* addAssignment for every item = [range, id, epoch, seqno], in order
RECURSIVE AddAll(_, _, _)
AddAll(st, items, track) ==
    IF items = <<>> THEN st
    ELSE LET h == Head(items)
             r == addAssignment(st.map, h.range, h.id, h.epoch, h.seqno, st.outOfDate, track)
         IN AddAll([map |-> r.map, outOfDate |-> r.outOfDate, clash |-> st.clash \/ r.clash],
                   Tail(items), track)

\* the child ranges of the persisted split of parent p, in key order
ChildRanges(p) ==
    LET bs == SortedSeq(splitBoundaries[p].keys)
    IN [i \in 1 .. (Len(bs) - 1) |-> Range(bs[i], bs[i + 1])]

\* the range the boundaries of parent p span
ParentRange(p) ==
    LET bs == SortedSeq(splitBoundaries[p].keys) IN Range(bs[1], bs[Len(bs)])

RECURSIVE SplitItems(_)
SplitItems(parents) ==
    IF parents = <<>> THEN <<>>
    ELSE LET p == Head(parents)
             cs == ChildRanges(p)
         IN [i \in 1 .. Len(cs) |->
                [range |-> cs[i], id |-> NoWorker,
                 epoch |-> splitBoundaries[p].marker[1], seqno |-> splitBoundaries[p].marker[2]]]
            \o SplitItems(Tail(parents))

RECURSIVE WorkerItems(_, _)
WorkerItems(order, responding) ==
    IF order = <<>> THEN <<>>
    ELSE (IF Head(order) \in responding
          THEN [i \in 1 .. Len(bwGranules[Head(order)]) |->
                   [range |-> bwGranules[Head(order)][i].range, id |-> Head(order),
                    epoch |-> bwGranules[Head(order)][i].epoch,
                    seqno |-> bwGranules[Head(order)][i].seqno]]
          ELSE <<>>)
         \o WorkerItems(Tail(order), responding)

RECURSIVE MarkKnown(_, _)
MarkKnown(known, items) ==
    IF items = <<>> THEN known
    ELSE MarkKnown(KRMInsert(known, Head(items).range, TRUE), Tail(items))

\* the orders in which the unordered map workersById can be iterated
WorkerOrders(ws) ==
    {o \in [1 .. Cardinality(ws) -> ws] : \A i, j \in DOMAIN o : i # j => o[i] # o[j]}

\* the worker list is ready: the first manager skips the algorithm, a later one
\* reads the split boundaries into inProgressSplits
RecoverSplits ==
    /\ Active
    /\ recovery.pc = "splits"
    /\ IF epoch = 1
       THEN recovery' = [recovery EXCEPT !.pc = "done"]
       ELSE \E st \in {AddAll([map |-> recovery.inProgressSplits, outOfDate |-> <<>>,
                               clash |-> FALSE],
                              SplitItems(SortedSeq(DOMAIN splitBoundaries)), FALSE)} :
              recovery' = [recovery EXCEPT !.pc = "workers", !.inProgressSplits = st.map]
    /\ UNCHANGED <<gcVars, alreadyMoved, recruiting, doLockCheck, assignerWait, rangeVars, bmVars, splitTasks, dbVars, engVars, envVars, bwGranules>>

\* every GetGranuleAssignmentsRequest has been answered or has timed out
RecoverWorkers ==
    /\ Active
    /\ recovery.pc = "workers"
    /\ \E responding \in SUBSET (DOMAIN workerStats \cap bwAlive) :
       \E order \in WorkerOrders(DOMAIN workerStats) :
       \E items \in {WorkerItems(order, responding)} :
       \E st \in {AddAll([map |-> recovery.workerAssignments, outOfDate |-> recovery.outOfDate,
                          clash |-> FALSE], items, TRUE)} :
         /\ knownBlobRanges' = MarkKnown(knownBlobRanges, items)
         /\ workerStats' = [w \in DOMAIN workerStats |->
                               IF w \in responding THEN Len(bwGranules[w]) ELSE workerStats[w]]
         /\ assertFailed' = IF st.clash THEN "oldEpoch != newEpoch || oldSeqno != newSeqno"
                            ELSE assertFailed
         /\ recovery' = [recovery EXCEPT !.pc = "mapping", !.workerAssignments = st.map,
                                         !.outOfDate = st.outOfDate, !.responded = responding]
    /\ UNCHANGED <<gcVars, alreadyMoved, recruiting, doLockCheck, assignerWait, rangesToAdd, rangesToRemove, initialKnown, dbActive, netEmitted, epoch, seqNo,
                   iAmReplaced, rangesToAssign, stopped, nextUID, splitTasks, dbVars,
                   workerAssignments, deadWorkers, assignsInProgress, inflight, sent, monitor,
                   lastSeenSeqno, killTasks, recruitTriggers, envVars, bwGranules>>

\* the persisted mapping fills the gaps, then the in-progress splits are laid over the map
RecoverMapping ==
    /\ Active
    /\ recovery.pc = "mapping"
    /\ \E mapped \in {[i \in 1 .. Len(KRMRanges(granuleMapping)) |->
                          [range |-> Range(KRMRanges(granuleMapping)[i].begin,
                                           KRMRanges(granuleMapping)[i].end),
                           id |-> KRMRanges(granuleMapping)[i].value, epoch |-> 0, seqno |-> 1]]} :
       \E st1 \in {AddAll([map |-> recovery.workerAssignments, outOfDate |-> recovery.outOfDate,
                           clash |-> FALSE], mapped, FALSE)} :
       \E splits \in {SelectSeq(KRMRanges(recovery.inProgressSplits),
                                LAMBDA it : it.value[2] # 0 /\ it.value[3] # 0)} :
       \E st2 \in {AddAll(st1,
                          [i \in 1 .. Len(splits) |->
                              [range |-> Range(splits[i].begin, splits[i].end), id |-> NoWorker,
                               epoch |-> splits[i].value[2], seqno |-> splits[i].value[3]]],
                          TRUE)} :
         /\ knownBlobRanges' = MarkKnown(knownBlobRanges, mapped)
         /\ recovery' = [recovery EXCEPT !.pc = "lock", !.workerAssignments = st2.map,
                                         !.outOfDate = st2.outOfDate]
    /\ UNCHANGED <<gcVars, alreadyMoved, recruiting, doLockCheck, assignerWait, rangesToAdd, rangesToRemove, initialKnown, dbActive, netEmitted, bmVars,
                   splitTasks, dbVars, engVars, envVars, bwGranules>>

\* variant whose Assigns name no worker
RecoverEventsFresh(rec) ==
    LET final == SelectSeq(KRMRanges(rec.workerAssignments),
                           LAMBDA it : ~(it.value[2] = 0 /\ it.value[3] = 0))
        toAssign == SelectSeq(final, LAMBDA it :
                        \/ it.value[1] = NoWorker
                        \/ it.value[2] = 0
                        \/ it.value[1] \notin DOMAIN workerStats)
    IN [final |-> final,
        events |-> [i \in 1 .. Len(rec.outOfDate) |->
                       RevokeEvent(rec.outOfDate[i][2], rec.outOfDate[i][1], FALSE)]
                   \o [i \in 1 .. Len(toAssign) |->
                          AssignEvent(Range(toAssign[i].begin, toAssign[i].end),
                                      NoWorker, "Normal")]]

\* the Revokes of the out of date assignments, then one Assign for every range
\* whose owner is unknown, came from the persisted mapping, or is not a known worker
RecoverEvents(rec) ==
    LET final == SelectSeq(KRMRanges(rec.workerAssignments),
                           LAMBDA it : ~(it.value[2] = 0 /\ it.value[3] = 0))
        toAssign == SelectSeq(final, LAMBDA it :
                        \/ it.value[1] = NoWorker
                        \/ it.value[2] = 0
                        \/ it.value[1] \notin DOMAIN workerStats)
    IN [final |-> final,
        events |-> [i \in 1 .. Len(rec.outOfDate) |->
                       RevokeEvent(rec.outOfDate[i][2], rec.outOfDate[i][1], FALSE)]
                   \o [i \in 1 .. Len(toAssign) |->
                          AssignEvent(Range(toAssign[i].begin, toAssign[i].end),
                                      toAssign[i].value[1], "Normal")]]

\* checkManagerLock once more, then take the ranges over and send the events
RecoverFinish ==
    /\ Active
    /\ recovery.pc = "lock"
    /\ IF managerEpoch # epoch
       THEN /\ iAmReplaced' = TRUE
            /\ recovery' = [recovery EXCEPT !.pc = "error"]
            /\ UNCHANGED <<rangesToAssign, workerAssignments>>
       ELSE \E out \in {RecoverEvents(recovery)} :
            /\ rangesToAssign' = rangesToAssign \o out.events
            /\ workerAssignments' =
                 InsertAll(workerAssignments,
                           [i \in 1 .. Len(out.final) |->
                               [range |-> Range(out.final[i].begin, out.final[i].end),
                                value |-> out.final[i].value[1]]])
            /\ recovery' = [recovery EXCEPT !.pc = "done", !.enqueued = out.events]
            /\ UNCHANGED iAmReplaced
    /\ UNCHANGED <<gcVars, alreadyMoved, recruiting, doLockCheck, assignerWait, rangeVars, epoch, seqNo, stopped, assertFailed, nextUID, splitTasks, dbVars,
                   workerStats, deadWorkers, assignsInProgress, inflight, sent, monitor,
                   lastSeenSeqno, killTasks, recruitTriggers, envVars, bwGranules>>

----------------------------------------------------------------------------
(* Specification SpecRecover: the manager of epoch 2 starts after the      *)
(* manager of epoch 1 persisted the split of granule [0, NormalEnd) and    *)
(* stopped before it sent any child Assign                                 *)

\* what the manager of epoch 1 left: the parent was assigned with seqno 1, the
\* split took seqno 2 and the granule lock seqno 3.  Either the first owner
\* still holds the parent (reassigned = FALSE), or it failed after the split
\* committed and killBlobWorker moved the parent to holder with seqno 5.
InitRecover ==
    /\ knownBlobRanges = KRMNew(FALSE, NormalEnd)
    /\ rangesToAdd = <<>>
    /\ rangesToRemove = <<>>
    /\ initialKnown = <<>>
    /\ dbActive = [k \in 0 .. (NormalEnd - 1) |-> TRUE]
    /\ netEmitted = <<>>
    /\ epoch = 2
    /\ seqNo = 1
    /\ iAmReplaced = FALSE
    /\ rangesToAssign = <<>>
    /\ stopped = FALSE
    /\ assertFailed = ""
    /\ nextUID = 0
    /\ splitTasks = <<>>
    /\ managerEpoch = 2
    /\ \E keys \in SUBSET (0 .. NormalEnd) :
         /\ {0, NormalEnd} \subseteq keys
         /\ Cardinality(keys) >= 3
         /\ splitBoundaries = (101 :> [marker |-> <<1, 2>>, keys |-> keys])
         /\ splitKeys = [k \in {<<101, i>> : i \in 1 .. (Cardinality(keys) - 1)} |-> 1]
         /\ historyKeys =
              ApplyHistory(<<>>, [i \in 1 .. (Cardinality(keys) - 1) |->
                  [key |-> <<Range(SortedSeq(keys)[i], SortedSeq(keys)[i + 1]), 2>>,
                   value |-> [granuleID |-> i, parentRange |-> AllKeys, parentVersion |-> 1]]])
    /\ \E holder \in Workers : \E reassigned \in BOOLEAN :
         /\ bwGranules = [w \in Workers |->
                             IF w = holder
                             THEN <<[range |-> AllKeys, epoch |-> 1,
                                     seqno |-> IF reassigned THEN 5 ELSE 1]>>
                             ELSE <<>>]
         /\ granuleLocks = (AllKeys :> [epoch |-> 1, seqno |-> IF reassigned THEN 5 ELSE 3,
                                        granuleID |-> 101])
    /\ \E registered \in SUBSET Workers :
         /\ registered # {}
         /\ workerStats = [w \in registered |-> 0]
         /\ bwAlive = registered
         /\ bwList = registered
    /\ \E owner \in {NoWorker} \cup Workers : granuleMapping = KRMNew(owner, NormalEnd)
    /\ workerAssignments = KRMNew(NoWorker, NormalEnd)
    /\ deadWorkers = {}
    /\ assignsInProgress = [k \in 0 .. (NormalEnd - 1) |-> 0]
    /\ inflight = {}
    /\ sent = <<>>
    /\ monitor = [pc |-> "recovering", idx |-> 0, ckvBegin |-> 0, lastChange |-> 0]
    /\ lastSeenSeqno = [w \in Workers |-> KRMNew(<<0, 0>>, NormalEnd)]
    /\ killTasks = [w \in Workers |-> "none"]
    /\ recruitTriggers = 0
    /\ changeKey = 0
    /\ staleCommits = {}
    /\ reportsSent = 0
    /\ recovery = [pc |-> "splits",
                   inProgressSplits |-> KRMNew(<<NoWorker, 0, 0>>, NormalEnd),
                   workerAssignments |-> KRMNew(<<NoWorker, 0, 0>>, NormalEnd),
                   outOfDate |-> <<>>, responded |-> {}, enqueued |-> <<>>]
    /\ assignerWait = <<>>
    /\ alreadyMoved = {}
    /\ doLockCheck = LockCheckIdle
    /\ recruiting = RecruitingIdle
    /\ GcIdle

\* rangeAssigner is started once recoverBlobManager has returned
NextRecover ==
    \/ RecoverSplits
    \/ RecoverWorkers
    \/ RecoverMapping
    \/ RecoverFinish
    \/ (recovery.pc = "done" /\ RangeAssignerStep)
    \/ \E i \in inflight : RpcReplyOk(i)
    \/ \E i \in inflight : RpcReplyReplaced(i)
    \/ ManagerElected
    \/ ManagerExits

SpecRecover == InitRecover /\ [][NextRecover]_vars

\* the Assign events recoverBlobManager sent for range r
RecoveryAssigns(r) ==
    {i \in 1 .. Len(recovery.enqueued) :
        recovery.enqueued[i].isAssign /\ recovery.enqueued[i].keyRange = r}

\* recovery enqueued one Assign for each child of p and none for the range of p
ChildrenTakeOver(p) ==
    /\ \A i \in 1 .. Len(ChildRanges(p)) : Cardinality(RecoveryAssigns(ChildRanges(p)[i])) = 1
    /\ RecoveryAssigns(ParentRange(p)) = {}

\* no worker answered with an assignment over the range of p that is newer than the split of p
ParentStale(p) ==
    \A w \in recovery.responded : \A i \in 1 .. Len(bwGranules[w]) :
        Overlaps(bwGranules[w][i].range, ParentRange(p)) =>
            \/ bwGranules[w][i].epoch < splitBoundaries[p].marker[1]
            \/ /\ bwGranules[w][i].epoch = splitBoundaries[p].marker[1]
               /\ bwGranules[w][i].seqno <= splitBoundaries[p].marker[2]

UntargetedAssignSent ==
    /\ Len(sent') = Len(sent) + 1
    /\ sent'[Len(sent')].isAssign
    /\ \/ assignerWait # <<>> /\ assignerWait' = <<>>
       \/ /\ assignerWait = <<>>
          /\ seqNo' = seqNo + 1
          /\ rangesToAssign # <<>>
          /\ Head(rangesToAssign).isAssign
          /\ Head(rangesToAssign).worker = NoWorker

\* the event such a step is working on
UntargetedEvent == IF assignerWait # <<>> THEN assignerWait[1].ev ELSE Head(rangesToAssign)

PickedLeastLoaded ==
    UntargetedAssignSent =>
        LET w == sent'[Len(sent')].worker
        IN  /\ w \in DOMAIN workerStats
            /\ \A v \in DOMAIN workerStats : workerStats[w] <= workerStats[v]
            /\ sent'[Len(sent')].keyRange = UntargetedEvent.keyRange
            /\ \A k \in KeysOf(UntargetedEvent.keyRange) : workerAssignments'.val[k] = w

\* entering the wait: no worker is registered, the event is held, nothing is assigned or sent
WaitStarts ==
    (assignerWait = <<>> /\ assignerWait' # <<>>) =>
        /\ DOMAIN workerStats = {}
        /\ assignerWait'[1].ev = Head(rangesToAssign)
        /\ workerAssignments' = workerAssignments
        /\ sent' = sent
        /\ assertFailed' = assertFailed

\* during the wait: the held event stays, nothing is assigned or sent
WaitChangesNothing ==
    (assignerWait # <<>> /\ assignerWait' # <<>>) =>
        /\ assignerWait' = assignerWait
        /\ workerAssignments' = workerAssignments
        /\ sent' = sent
        /\ assertFailed' = assertFailed

\* the wait ends only by assigning the held event
WaitEndsByAssigning ==
    (assignerWait # <<>> /\ assignerWait' = <<>>) =>
        /\ DOMAIN workerStats # {}
        /\ UntargetedAssignSent
        /\ sent'[Len(sent')].seqno = assignerWait[1].seqno

\* C16: an Assign that names no worker goes to a registered worker whose
\* numGranulesAssigned is minimal when the choice is made; while no worker is
\* registered the range assigner waits, holding the event, changing nothing in
\* workerAssignments and sending nothing; once a worker is registered the wait
\* ends (unless the manager stops) and the held event is assigned
C16_LeastLoadedOrWait ==
    /\ [][PickedLeastLoaded /\ WaitStarts /\ WaitChangesNothing /\ WaitEndsByAssigning]_vars
    /\ (assignerWait # <<>> /\ DOMAIN workerStats # {}) ~> (assignerWait = <<>> \/ ~Active)

\* the range assigner waited with no worker, a worker was recruited, and the held
\* Assign went to it while the other worker, recruited later, got the next one
C16_Witness ==
    /\ Active
    /\ recruitTriggers > 0
    /\ assignerWait = <<>>
    /\ Len(sent) = 2
    /\ sent[1].isAssign /\ sent[2].isAssign
    /\ sent[1].worker # sent[2].worker
    /\ \A w \in Workers : w \in DOMAIN workerStats /\ workerStats[w] = 1

\* ---------------------------------------------------------------------------
\* monitorPruneKeys, pruneRange, fullyDeleteGranule

\* keys of the granule history the pruning runs over
GcKeys == 4

\* splits the granule history went through before pruning starts
MaxSplits == 3

\* scans of the prune intents by monitorPruneKeys (change of the watched key or BG_PRUNE_TIMEOUT)
MaxSweeps == 2

\* prune intents the client writes
MaxIntentWrites == 2

\* addresses the arena of currHistoryNode can put the begin key of a parent range at
NumAddrs == 2

MAX_VERSION == 99

\* fullyDeleteGranule calls of one pruneRange whose historyKey no longer holds the key
MaxStaleClears == 1

\* versions a client asks to prune at
PruneVersions == {2, 3}

\* begin keys of the ranges a client asks to prune; they end at the end of the key space
PruneStarts == {0, 1}

GcAllKeys == Range(0, GcKeys)

GcRoot == <<GcAllKeys, 1>>

\* the granule that splits: its two children get fresh ids and the version of the split
GcSplit(h, leaf, m) ==
    LET k == Cardinality(h.leaves)
        left == <<Range(leaf[1].begin, m), k + 1>>
        right == <<Range(m, leaf[1].end), k + 1>>
    IN  [hist |-> [x \in DOMAIN h.hist \cup {left, right} |->
                     IF x = left THEN [granuleID |-> 2 * k, parentRange |-> leaf[1],
                                       parentVersion |-> leaf[2]]
                     ELSE IF x = right THEN [granuleID |-> 2 * k + 1, parentRange |-> leaf[1],
                                             parentVersion |-> leaf[2]]
                     ELSE h.hist[x]],
         leaves |-> (h.leaves \ {leaf}) \cup {left, right}]

\* the histories up to n splits of the first granule leave behind; the first
\* granule has no parent (parentVersion 0)
RECURSIVE GcHistories(_)
GcHistories(n) ==
    IF n = 0
    THEN {[hist |-> [x \in {GcRoot} |->
                       [granuleID |-> 1, parentRange |-> GcAllKeys, parentVersion |-> 0]],
           leaves |-> {GcRoot}]}
    ELSE LET prev == GcHistories(n - 1)
         IN  prev \cup UNION {UNION {{GcSplit(h, leaf, m) :
                                        m \in (leaf[1].begin + 1) .. (leaf[1].end - 1)} :
                                     leaf \in h.leaves} : h \in prev}

\* BlobGranuleHistoryValue.parentGranules
Parents(node) ==
    IF node.parentVersion = 0 THEN <<>>
    ELSE <<[range |-> node.parentRange, version |-> node.parentVersion]>>

\* blobGranulePruneKeys.begin.withSuffix(key): the key with one prefix in front
PruneKeyFor(k) == <<1, k>>

\* Key::withPrefix(blobGranulePruneKeys.begin): one more prefix in front
WithPrunePrefix(key) == <<key[1] + 1, key[2]>>

\* blobGranulePruneValueFor / decodeBlobGranulePruneValue
PruneValueFor(version, force) == <<version, force>>

\* krmGetRanges(blobGranulePruneKeys.begin, normalKeys): the boundaries with their values
PruneIntentRanges ==
    LET bs == SortedSeq({0} \cup {key[2] : key \in {x \in DOMAIN pruneIntents : x[1] = 1}})
        valueAt(b) == IF PruneKeyFor(b) \in DOMAIN pruneIntents
                      THEN pruneIntents[PruneKeyFor(b)] ELSE <<>>
    IN  [i \in 1 .. Len(bs) |->
            [begin |-> bs[i], end |-> IF i < Len(bs) THEN bs[i + 1] ELSE GcKeys,
             value |-> valueAt(bs[i])]]

\* the client writes a prune intent for [s, e) with krmSetRange and bumps the change key
IntentWritten(s, e, version, force) ==
    /\ pruneChangeKey < MaxIntentWrites
    /\ s < e
    /\ \A x \in DOMAIN pruneIntents : x[2] \in {s, e}
    /\ pruneIntents' = [x \in DOMAIN pruneIntents \cup {PruneKeyFor(s), PruneKeyFor(e)} |->
                           IF x = PruneKeyFor(s) THEN PruneValueFor(version, force)
                           ELSE IF x = PruneKeyFor(e) THEN <<>>
                           ELSE pruneIntents[x]]
    /\ pruneChangeKey' = pruneChangeKey + 1
    /\ UNCHANGED <<prune, fileKeys, assignerWait, alreadyMoved, recruiting, doLockCheck, recVars, rangeVars, bmVars, splitTasks, dbVars,
                   engVars, envVars>>

\* monitorPruneKeys: the watch fired or timed out; it scans the intents and
\* starts pruneRange for the range with a value
MonitorPruneScan ==
    /\ Active
    /\ prune.pc \in {"watch", "done", "error"}
    /\ prune.sweeps < MaxSweeps
    /\ LET found == SelectSeq(PruneIntentRanges, LAMBDA it : it.value # <<>>)
       IN  IF found = <<>>
           THEN prune' = [pc |-> "watch", sweeps |-> prune.sweeps + 1]
           ELSE prune' = [pc |-> "load", sweeps |-> prune.sweeps + 1,
                          startKey |-> found[1].begin, endKey |-> found[1].end,
                          pruneVersion |-> found[1].value[1], force |-> found[1].value[2],
                          activeRanges |-> KRMIntersecting(workerAssignments,
                                                           Range(found[1].begin, found[1].end)),
                          activeRange |-> KRMRangeContaining(workerAssignments,
                                                             found[1].begin).begin,
                          reading |-> <<>>,
                          historyEntryQueue |-> <<>>, visited |-> {},
                          toFullyDelete |-> <<>>, toPartiallyDelete |-> <<>>,
                          i |-> 0, staleClears |-> 0, seen |-> <<>>, deleted |-> <<>>,
                          matched |-> FALSE]
    /\ UNCHANGED <<pruneIntents, pruneChangeKey, fileKeys, assignerWait, alreadyMoved, recruiting, doLockCheck, recVars, rangeVars,
                   bmVars, splitTasks, dbVars, engVars, envVars>>

\* getLatestGranuleHistory: the history entry of the range with the largest version
LatestHistoryVersions(r) ==
    {key[2] : key \in {x \in DOMAIN historyKeys :
                          x[1] = r /\ \A y \in DOMAIN historyKeys : y[1] = r => y[2] <= x[2]}}

\* the loop over activeRanges from the node at key pos on, up to its next
\* wait: nodes that pass the prune boundaries are left with `continue`; the
\* result is the range of the node whose history is read next, or <<>> at the end
RECURSIVE NextActiveRange(_)
NextActiveRange(pos) ==
    IF pos >= prune.endKey \/ pos >= workerAssignments.mapEnd THEN <<>>
    ELSE LET end == KRMNextBound(workerAssignments, pos)
         IN  IF pos < prune.startKey \/ end > prune.endKey
             THEN NextActiveRange(end)
             ELSE <<Range(pos, end)>>

\* what activeRange.range() gives after the wait for the history of range r.
\* activeRanges is a pair of iterators into workerAssignments: when the node was
\* not touched it is r; when an insert replaced it during the wait the iterator
\* dangles and the read gives the node as it was or the node now at that key
RangesAfterWait(r) ==
    IF r.begin \in workerAssignments.bounds /\ KRMNextBound(workerAssignments, r.begin) = r.end
    THEN {r}
    ELSE {x \in {r} : x.end \in workerAssignments.bounds \cup {workerAssignments.mapEnd}}
         \cup {Range(r.begin, KRMNextBound(workerAssignments, r.begin)) :
                 b \in {r.begin} \cap workerAssignments.bounds}

\* pruneRange, loop over activeRanges, from one wait to the next: the history
\* read for the range in prune.reading has returned, the range is put in the
\* queue, the iterator moves on and the next read is sent; activeRanges (the
\* intervals at the time of intersectingRanges) is kept for reference only
PruneLoad ==
    /\ Active
    /\ prune.pc = "load"
    /\ IF prune.reading = <<>>
       THEN LET next == NextActiveRange(prune.activeRange)
            IN  prune' = IF next = <<>> THEN [prune EXCEPT !.pc = "visit"]
                         ELSE [prune EXCEPT !.activeRange = next[1].begin, !.reading = next]
       ELSE LET r == prune.reading[1]
                latest == LatestHistoryVersions(r)
            IN  \/ /\ r \notin RangesAfterWait(r)
                   /\ prune' = [prune EXCEPT !.pc = "error"]
                \/ \E now \in RangesAfterWait(r) :
                      LET next == NextActiveRange(now.end)
                          moved == IF next = <<>>
                                   THEN [prune EXCEPT !.pc = "visit", !.reading = <<>>,
                                                      !.activeRange = now.end]
                                   ELSE [prune EXCEPT !.activeRange = next[1].begin,
                                                      !.reading = next]
                      IN  IF latest = {} THEN prune' = moved
                          ELSE \E v \in latest :
                                 prune' = [moved EXCEPT
                                             !.visited = @ \cup {<<<<"map", now.begin>>, v>>},
                                             !.historyEntryQueue = Append(@, <<now, v, MAX_VERSION>>)]
    /\ UNCHANGED <<pruneIntents, pruneChangeKey, fileKeys, assignerWait, alreadyMoved, recruiting, doLockCheck, recVars, rangeVars,
                   bmVars, splitTasks, dbVars, engVars, envVars>>

\* the parents loop of one history node; addrs[n] is where the begin key of the
\* n-th parent range lies in the arena of currHistoryNode
RECURSIVE VisitParents(_, _, _, _, _)
VisitParents(parents, addrs, startVersion, visited, queue) ==
    IF parents = <<>> THEN [visited |-> visited, queue |-> queue]
    ELSE LET parent == Head(parents)
             entry == <<<<"arena", Head(addrs)>>, parent.version>>
         IN  IF entry \in visited
             THEN VisitParents(Tail(parents), Tail(addrs), startVersion, visited, queue)
             ELSE VisitParents(Tail(parents), Tail(addrs), startVersion,
                               visited \cup {entry},
                               Append(queue, <<parent.range, parent.version, startVersion>>))

\* variant that partially deletes a granule that starts at the prune version
PruneVisitPartialAtOrBefore ==
    /\ Active
    /\ prune.pc = "visit"
    /\ IF prune.historyEntryQueue = <<>>
       THEN prune' = [prune EXCEPT !.pc = "full", !.i = Len(prune.toFullyDelete)]
       ELSE LET currRange == Head(prune.historyEntryQueue)[1]
                startVersion == Head(prune.historyEntryQueue)[2]
                endVersion == Head(prune.historyEntryQueue)[3]
                historyKey == <<currRange, startVersion>>
            IN  \/ prune' = [prune EXCEPT !.pc = "error"]
                \/ /\ historyKey \in DOMAIN historyKeys
                   /\ LET currHistoryNode == historyKeys[historyKey]
                      IN  \E addr \in 1 .. NumAddrs :
                              LET out == VisitParents(Parents(currHistoryNode), <<addr>>,
                                                      startVersion, prune.visited,
                                                      Tail(prune.historyEntryQueue))
                              IN  prune' = [prune EXCEPT
                                      !.historyEntryQueue = out.queue,
                                      !.visited = out.visited,
                                      !.seen = [x \in DOMAIN @ \cup {historyKey} |->
                                                  IF x = historyKey THEN currHistoryNode ELSE @[x]],
                                      !.toFullyDelete =
                                          IF prune.force \/ endVersion <= prune.pruneVersion
                                          THEN Append(@, [granuleID |-> currHistoryNode.granuleID,
                                                          historyKey |-> historyKey])
                                          ELSE @,
                                      !.toPartiallyDelete =
                                          IF ~(prune.force \/ endVersion <= prune.pruneVersion)
                                             /\ startVersion <= prune.pruneVersion
                                          THEN Append(@, currHistoryNode.granuleID)
                                          ELSE @]
    /\ UNCHANGED <<pruneIntents, pruneChangeKey, fileKeys, assignerWait, alreadyMoved, recruiting, doLockCheck, recVars, rangeVars,
                   bmVars, splitTasks, dbVars, engVars, envVars>>

\* pruneRange, one iteration of the loop over historyEntryQueue.  historyKey is a
\* KeyRef into the temporary blobGranuleHistoryKeyFor returned: the read either
\* finds the key that was computed or misses, and the assertion fails
PruneVisit ==
    /\ Active
    /\ prune.pc = "visit"
    /\ IF prune.historyEntryQueue = <<>>
       THEN prune' = [prune EXCEPT !.pc = "full", !.i = Len(prune.toFullyDelete)]
       ELSE LET currRange == Head(prune.historyEntryQueue)[1]
                startVersion == Head(prune.historyEntryQueue)[2]
                endVersion == Head(prune.historyEntryQueue)[3]
                historyKey == <<currRange, startVersion>>
            IN  \/ prune' = [prune EXCEPT !.pc = "error"]
                \/ /\ historyKey \in DOMAIN historyKeys
                   /\ LET currHistoryNode == historyKeys[historyKey]
                      IN  \E addr \in 1 .. NumAddrs :
                              LET out == VisitParents(Parents(currHistoryNode), <<addr>>,
                                                      startVersion, prune.visited,
                                                      Tail(prune.historyEntryQueue))
                              IN  prune' = [prune EXCEPT
                                      !.historyEntryQueue = out.queue,
                                      !.visited = out.visited,
                                      !.seen = [x \in DOMAIN @ \cup {historyKey} |->
                                                  IF x = historyKey THEN currHistoryNode ELSE @[x]],
                                      !.toFullyDelete =
                                          IF prune.force \/ endVersion <= prune.pruneVersion
                                          THEN Append(@, [granuleID |-> currHistoryNode.granuleID,
                                                          historyKey |-> historyKey])
                                          ELSE @,
                                      !.toPartiallyDelete =
                                          IF ~(prune.force \/ endVersion <= prune.pruneVersion)
                                             /\ startVersion < prune.pruneVersion
                                          THEN Append(@, currHistoryNode.granuleID)
                                          ELSE @]
    /\ UNCHANGED <<pruneIntents, pruneChangeKey, fileKeys, assignerWait, alreadyMoved, recruiting, doLockCheck, recVars, rangeVars,
                   bmVars, splitTasks, dbVars, engVars, envVars>>

\* what the KeyRef kept in toFullyDelete can hold when fullyDeleteGranule clears it:
\* the key it was computed as, or (at most MaxStaleClears times in one pruneRange)
\* bytes that are no history key
ClearedKeys(entry) ==
    {<<entry.historyKey>>} \cup (IF prune.staleClears < MaxStaleClears THEN {<<>>} ELSE {})

\* variant that walks toFullyDelete from the front
PruneFullDeleteFromFront ==
    /\ Active
    /\ prune.pc = "full"
    /\ IF prune.i = 0
       THEN /\ prune' = [prune EXCEPT !.pc = "partial"]
            /\ UNCHANGED <<fileKeys, historyKeys>>
       ELSE LET entry == prune.toFullyDelete[Len(prune.toFullyDelete) - prune.i + 1]
            IN  /\ fileKeys' = fileKeys \ {entry.granuleID}
                /\ \E cleared \in ClearedKeys(entry) :
                      /\ historyKeys' = [x \in DOMAIN historyKeys \ {cleared[j] : j \in DOMAIN cleared} |->
                                         historyKeys[x]]
                      /\ prune' = [prune EXCEPT
                                      !.i = @ - 1,
                                      !.deleted = Append(@, entry),
                                      !.staleClears = IF cleared = <<>> THEN @ + 1 ELSE @]
    /\ UNCHANGED <<pruneIntents, pruneChangeKey, assignerWait, alreadyMoved, recruiting, doLockCheck, recVars, rangeVars, bmVars,
                   splitTasks, managerEpoch, granuleLocks, splitBoundaries, splitKeys,
                   engVars, envVars>>

\* pruneRange, loop over toFullyDelete from the back: fullyDeleteGranule deletes
\* the files of the granule, then clears historyKey and the file keys
PruneFullDelete ==
    /\ Active
    /\ prune.pc = "full"
    /\ IF prune.i = 0
       THEN /\ prune' = [prune EXCEPT !.pc = "partial"]
            /\ UNCHANGED <<fileKeys, historyKeys>>
       ELSE LET entry == prune.toFullyDelete[prune.i]
            IN  /\ fileKeys' = fileKeys \ {entry.granuleID}
                /\ \E cleared \in ClearedKeys(entry) :
                      /\ historyKeys' = [x \in DOMAIN historyKeys \ {cleared[j] : j \in DOMAIN cleared} |->
                                         historyKeys[x]]
                      /\ prune' = [prune EXCEPT
                                      !.i = @ - 1,
                                      !.deleted = Append(@, entry),
                                      !.staleClears = IF cleared = <<>> THEN @ + 1 ELSE @]
    /\ UNCHANGED <<pruneIntents, pruneChangeKey, assignerWait, alreadyMoved, recruiting, doLockCheck, recVars, rangeVars, bmVars,
                   splitTasks, managerEpoch, granuleLocks, splitBoundaries, splitKeys,
                   engVars, envVars>>

\* pruneRange: all partiallyDeleteGranule calls run together; they delete old
\* files of granules that keep their newest snapshot, their file keys and their history
PrunePartialDelete ==
    /\ Active
    /\ prune.pc = "partial"
    /\ prune' = [prune EXCEPT !.pc = "clear"]
    /\ UNCHANGED <<pruneIntents, pruneChangeKey, fileKeys, assignerWait, alreadyMoved, recruiting, doLockCheck, recVars, rangeVars,
                   bmVars, splitTasks, dbVars, engVars, envVars>>

\* pruneRange, last transaction: read the intent, and if it is still the one
\* processed clear pruneIntentKey.withPrefix(blobGranulePruneKeys.begin)
PruneClearIntent ==
    /\ Active
    /\ prune.pc = "clear"
    /\ LET pruneIntentKey == PruneKeyFor(prune.startKey)
       IN  IF pruneIntentKey \notin DOMAIN pruneIntents
           THEN /\ prune' = [prune EXCEPT !.pc = "error"]
                /\ UNCHANGED pruneIntents
           ELSE IF pruneIntents[pruneIntentKey] = PruneValueFor(prune.pruneVersion, prune.force)
           THEN /\ pruneIntents' = [x \in DOMAIN pruneIntents \ {WithPrunePrefix(pruneIntentKey)} |->
                                       pruneIntents[x]]
                /\ prune' = [prune EXCEPT !.pc = "done", !.matched = TRUE]
           ELSE /\ prune' = [prune EXCEPT !.pc = "done"]
                /\ UNCHANGED pruneIntents
    /\ UNCHANGED <<pruneChangeKey, fileKeys, assignerWait, alreadyMoved, recruiting, doLockCheck, recVars, rangeVars, bmVars, splitTasks,
                   dbVars, engVars, envVars>>

\* a manager whose granules are the leaves of a split history, all assigned
InitPrune ==
    /\ \E h \in GcHistories(MaxSplits) :
         /\ historyKeys = h.hist
         /\ fileKeys = {h.hist[x].granuleID : x \in DOMAIN h.hist}
         /\ workerAssignments = [bounds |-> {leaf[1].begin : leaf \in h.leaves},
                                 val |-> [k \in 0 .. (GcKeys - 1) |-> 1],
                                 mapEnd |-> GcKeys]
    /\ pruneIntents = <<>>
    /\ pruneChangeKey = 0
    /\ prune = [pc |-> "watch", sweeps |-> 0]
    /\ knownBlobRanges = KRMNew(TRUE, GcKeys)
    /\ rangesToAdd = <<>>
    /\ rangesToRemove = <<>>
    /\ initialKnown = <<>>
    /\ dbActive = [k \in 0 .. (GcKeys - 1) |-> TRUE]
    /\ netEmitted = <<>>
    /\ epoch = 1
    /\ seqNo = 1
    /\ iAmReplaced = FALSE
    /\ rangesToAssign = <<>>
    /\ stopped = FALSE
    /\ assertFailed = ""
    /\ nextUID = 0
    /\ splitTasks = <<>>
    /\ managerEpoch = 1
    /\ granuleLocks = <<>>
    /\ splitBoundaries = <<>>
    /\ splitKeys = <<>>
    /\ workerStats = [w \in {1} |-> Cardinality(workerAssignments.bounds)]
    /\ deadWorkers = {}
    /\ assignsInProgress = [k \in 0 .. (GcKeys - 1) |-> 0]
    /\ inflight = {}
    /\ sent = <<>>
    /\ monitor = [pc |-> "watch", idx |-> 0, ckvBegin |-> 0, lastChange |-> 0]
    /\ lastSeenSeqno = [w \in {1} |-> KRMNew(<<0, 0>>, GcKeys)]
    /\ killTasks = [w \in {1} |-> "none"]
    /\ recruitTriggers = 0
    /\ bwAlive = {1}
    /\ bwList = {1}
    /\ changeKey = 0
    /\ granuleMapping = workerAssignments
    /\ staleCommits = {}
    /\ reportsSent = 0
    /\ recovery = <<>>
    /\ bwGranules = <<>>
    /\ assignerWait = <<>>
    /\ alreadyMoved = {}
    /\ doLockCheck = LockCheckIdle
    /\ recruiting = RecruitingIdle

NextPrune ==
    \/ \E s \in PruneStarts : \E e \in {GcKeys} : \E version \in PruneVersions :
          \E force \in BOOLEAN : IntentWritten(s, e, version, force)
    \/ MonitorPruneScan
    \/ PruneLoad
    \/ PruneVisit
    \/ PruneFullDelete
    \/ PrunePartialDelete
    \/ PruneClearIntent

SpecPrune == InitPrune /\ [][NextPrune]_vars

\* the latest history nodes of the ranges in workerAssignments
ActiveNodes ==
    UNION {{<<Range(it.begin, it.end), v>> : v \in LatestHistoryVersions(Range(it.begin, it.end))} :
           it \in {KRMRanges(workerAssignments)[n] : n \in 1 .. Len(KRMRanges(workerAssignments))}}

\* the persisted history nodes a walk over parent links from the nodes in S passes
RECURSIVE ReachableFrom(_)
ReachableFrom(S) ==
    LET more == {x \in DOMAIN historyKeys :
                    \E n \in S : \E j \in DOMAIN Parents(historyKeys[n]) :
                        x = <<Parents(historyKeys[n])[j].range, Parents(historyKeys[n])[j].version>>}
    IN  IF more \subseteq S THEN S ELSE ReachableFrom(S \cup more)

\* C13: at every point during and after the processing of a prune intent every
\* history node still persisted is reachable from an active granule over parent links
C13_SurvivorsReachable == DOMAIN historyKeys \subseteq ReachableFrom(ActiveNodes)

\* the history node p is a parent of the history node c, by the value read for c
ParentOf(p, c) ==
    /\ c \in DOMAIN prune.seen
    /\ \E j \in DOMAIN Parents(prune.seen[c]) :
          p = <<Parents(prune.seen[c])[j].range, Parents(prune.seen[c])[j].version>>

\* pruneRange is in or past its loop of full deletes
FullDeletesStarted == prune.pc \in {"full", "partial", "clear", "done"}

\* the original statement: of two fully deleted granules where one is the parent
\* of the other, the child is deleted first
C14_ChildrenBeforeParents ==
    FullDeletesStarted =>
        \A a \in DOMAIN prune.deleted : \A b \in DOMAIN prune.deleted :
            a < b => ~ParentOf(prune.deleted[a].historyKey, prune.deleted[b].historyKey)

\* C14: within one prune intent the full deletes run one at a time, in the
\* reverse of the order in which the walk over the history put the granules in
\* toFullyDelete; in a forced prune every granule the walk reached over a parent
\* link is put there after a child of it, so it is fully deleted before that child
C14_ReverseOfWalkOrder ==
    /\ FullDeletesStarted =>
          /\ Len(prune.deleted) = Len(prune.toFullyDelete) - prune.i
          /\ \A n \in DOMAIN prune.deleted :
                prune.deleted[n] = prune.toFullyDelete[Len(prune.toFullyDelete) - n + 1]
    /\ (prune.pc \notin {"watch", "load"} /\ prune.force) =>
          \A b \in DOMAIN prune.toFullyDelete :
             \/ <<<<"map", prune.toFullyDelete[b].historyKey[1].begin>>,
                  prune.toFullyDelete[b].historyKey[2]>> \in prune.visited
             \/ \E a \in 1 .. (b - 1) :
                   ParentOf(prune.toFullyDelete[b].historyKey, prune.toFullyDelete[a].historyKey)

\* a forced prune finished after deleting the first granule, then a child of it,
\* then a grandchild
C14_Witness ==
    /\ prune.pc = "done"
    /\ prune.force
    /\ Len(prune.deleted) >= 3
    /\ prune.deleted[1].historyKey = GcRoot
    /\ \E a \in DOMAIN prune.deleted : \E b \in DOMAIN prune.deleted :
          /\ 1 < a /\ a < b
          /\ ParentOf(GcRoot, prune.deleted[a].historyKey)
          /\ ParentOf(prune.deleted[a].historyKey, prune.deleted[b].historyKey)

\* pruneRange ends its last transaction in this step
PruneIntentChecked == prune.pc = "clear" /\ prune'.pc = "done"

\* the persisted intent of the range is the one pruneRange processed
IntentStillMatches ==
    /\ PruneKeyFor(prune.startKey) \in DOMAIN pruneIntents
    /\ pruneIntents[PruneKeyFor(prune.startKey)] = PruneValueFor(prune.pruneVersion, prune.force)

\* a different intent written while pruneRange ran is left as it is
DifferentIntentKept ==
    (PruneIntentChecked /\ ~IntentStillMatches) => pruneIntents' = pruneIntents

\* C15: when pruneRange has finished the deletions for an intent and the
\* persisted intent of the range is still that intent, it is removed from the
\* store; when a different intent was written meanwhile it is left unchanged
C15_MatchingIntentRemoved ==
    [][/\ DifferentIntentKept
       /\ (PruneIntentChecked /\ IntentStillMatches) =>
             \/ PruneKeyFor(prune.startKey) \notin DOMAIN pruneIntents'
             \/ pruneIntents'[PruneKeyFor(prune.startKey)] = <<>>]_vars

\* ---------------------------------------------------------------------------
\* every actor of the manager together: recovery first, then the client range
\* monitor, the status streams and splits, worker failures, the range mover
\* and pruning, next to the range assigner

\* variant of the range mover that takes the range from its worker in workerAssignments itself
ChaosMoveWritesMap ==
    /\ Active
    /\ Cardinality(DOMAIN workerStats) > 1
    /\ \E n \in 1 .. Len(KRMRanges(workerAssignments)) :
         LET randomRange == KRMRanges(workerAssignments)[n]
             range == Range(randomRange.begin, randomRange.end)
         IN  /\ randomRange.value # NoWorker
             /\ range \notin alreadyMoved
             /\ alreadyMoved' = alreadyMoved \cup {range}
             /\ workerAssignments' = KRMInsert(workerAssignments, range, NoWorker)
             /\ rangesToAssign' = rangesToAssign \o <<AssignEvent(range, NoWorker, "Normal")>>
    /\ UNCHANGED <<gcVars, assignerWait, doLockCheck, recruiting, recVars, rangeVars, epoch, seqNo, iAmReplaced, stopped,
                   assertFailed, nextUID, splitTasks, dbVars, workerStats, deadWorkers,
                   assignsInProgress, inflight, sent, monitor, lastSeenSeqno, killTasks,
                   recruitTriggers, envVars>>

\* chaosRangeMover: with more than one worker registered, move an assigned range
\* it has not moved before by queueing a revoke and an assign without a worker
ChaosMove ==
    /\ Active
    /\ Cardinality(DOMAIN workerStats) > 1
    /\ \E n \in 1 .. Len(KRMRanges(workerAssignments)) :
         LET randomRange == KRMRanges(workerAssignments)[n]
             range == Range(randomRange.begin, randomRange.end)
         IN  /\ randomRange.value # NoWorker
             /\ range \notin alreadyMoved
             /\ alreadyMoved' = alreadyMoved \cup {range}
             /\ rangesToAssign' = rangesToAssign \o <<RevokeEvent(range, NoWorker, FALSE),
                                                      AssignEvent(range, NoWorker, "Normal")>>
    /\ UNCHANGED <<gcVars, assignerWait, doLockCheck, recruiting, recVars, rangeVars, epoch, seqNo, iAmReplaced, stopped,
                   assertFailed, nextUID, splitTasks, dbVars, engVars, envVars>>

\* the three situations followed: a manager that recovers, a manager in steady
\* state with a client, failing workers and the range mover, and a manager
\* that prunes the granules of a split history; they differ in their key space
Recovering == recovery # <<>>

Pruning == recovery = <<>> /\ workerAssignments.mapEnd = GcKeys

Steady == recovery = <<>> /\ workerAssignments.mapEnd = NormalEnd

InitAll == InitRecover \/ Init \/ InitPrune

NextAll ==
    \/ (Recovering /\ NextRecover)
    \/ (Steady /\ ClientChange)
    \/ (Steady /\ MonitorRead)
    \/ (Steady /\ MonitorWrite)
    \/ (Steady /\ MonitorOnEmpty)
    \/ (Steady /\ RangeAssignerStep)
    \/ (Steady /\ ChaosMove)
    \/ \E i \in inflight : (Steady /\ RpcReplyOk(i))
    \/ \E w \in Workers : (Steady /\ WorkerFails(w))
    \/ \E w \in Workers : (Steady /\ KillStart(w))
    \/ \E w \in Workers : (Steady /\ DeregisterCommit(w))
    \/ \E w \in Workers : (Steady /\ KillFinish(w))
    \/ \E s \in PruneStarts : \E version \in PruneVersions : \E force \in BOOLEAN :
          (Pruning /\ pruneChangeKey = 0 /\ IntentWritten(s, GcKeys, version, force))
    \/ (Pruning /\ MonitorPruneScan)
    \/ (Pruning /\ PruneLoad)
    \/ (Pruning /\ PruneVisit)
    \/ (Pruning /\ PruneFullDelete)
    \/ (Pruning /\ PrunePartialDelete)
    \/ (Pruning /\ PruneClearIntent)

SpecAll == InitAll /\ [][NextAll]_vars

\* a step of rangeAssigner
EngineStep == RangeAssignerStep \/ PickWorkerResume

\* a step of monitorPruneKeys or of its pruneRange
GcStep ==
    \/ MonitorPruneScan
    \/ PruneLoad
    \/ PruneVisit
    \/ PruneFullDelete
    \/ PrunePartialDelete
    \/ PruneClearIntent

\* the last step of recoverBlobManager
RecoveryInstall == Recovering /\ RecoverFinish

\* the queue only grew at its end
OnlyEnqueued ==
    /\ Len(rangesToAssign') >= Len(rangesToAssign)
    /\ SubSeq(rangesToAssign', 1, Len(rangesToAssign)) = rangesToAssign

\* the original statement: workerAssignments changes and assign and revoke
\* requests are sent in steps of the range assigner only
C17_OnlyEngineChangesAssignments ==
    [][(workerAssignments' # workerAssignments \/ sent' # sent) => EngineStep]_vars

\* C17: assign and revoke requests are sent by the range assigner only;
\* workerAssignments is changed by the range assigner and, before the range
\* assigner has consumed anything, by the last step of recovery, which installs
\* the recovered assignments; every other actor changes assignments only by
\* adding to the queue, and pruning neither changes workerAssignments nor
\* adds to the queue
C17_EngineAndRecoveryInstall ==
    [][/\ sent' # sent => EngineStep
       /\ workerAssignments' # workerAssignments => (EngineStep \/ RecoveryInstall)
       /\ (workerAssignments' # workerAssignments /\ ~EngineStep) => (sent = <<>> /\ seqNo = 1)
       /\ ~EngineStep => OnlyEnqueued
       /\ GcStep => /\ workerAssignments' = workerAssignments
                    /\ rangesToAssign' = rangesToAssign
                    /\ sent' = sent]_vars

\* recovery installed an assignment to a worker in workerAssignments, and no
\* request was sent for it
C17_Witness ==
    /\ Recovering
    /\ recovery.pc = "done"
    /\ sent = <<>>
    /\ inflight = {}
    /\ \E k \in 0 .. (NormalEnd - 1) : workerAssignments.val[k] # NoWorker

\* ---------------------------------------------------------------------------
\* seqnos

\* this step took the event at the head of the queue; what it put in the queue
\* itself (the retry of a request that could not be sent) went to the end
Consumed ==
    /\ rangesToAssign # <<>>
    /\ ~OnlyEnqueued
    /\ Len(rangesToAssign') >= Len(rangesToAssign) - 1
    /\ SubSeq(rangesToAssign', 1, Len(rangesToAssign) - 1) = Tail(rangesToAssign)

\* this step took the split seqno of maybeSplitRange t
SplitTook(t) ==
    /\ t \in DOMAIN splitTasks
    /\ splitTasks[t].splitSeqno = NoSeqno
    /\ splitTasks'[t].splitSeqno # NoSeqno

\* this step took the lock seqno of maybeSplitRange t
LockTook(t) ==
    /\ t \in DOMAIN splitTasks
    /\ splitTasks[t].newLockSeqno = NoSeqno
    /\ splitTasks'[t].newLockSeqno # NoSeqno

\* how many seqnos this step took
SeqnosTaken ==
    (IF Consumed THEN 1 ELSE 0)
      + Cardinality({t \in DOMAIN splitTasks : SplitTook(t)})
      + Cardinality({t \in DOMAIN splitTasks : LockTook(t)})

\* every seqno this manager holds somewhere was taken from the counter before
SeqnosBelowCounter ==
    /\ \A i \in 1 .. Len(sent) : sent[i].epoch = epoch => sent[i].seqno < seqNo
    /\ \A t \in DOMAIN splitTasks :
          /\ splitTasks[t].splitSeqno < seqNo
          /\ splitTasks[t].newLockSeqno < seqNo
    /\ assignerWait # <<>> => assignerWait[1].seqno < seqNo

\* the requests this step sent
NewRequests == {i \in 1 .. Len(sent') : i > Len(sent)}

\* C18: events leave the queue at its head only, and every one that leaves takes
\* the current value of the one counter seqNo for its requests; a split takes
\* its split seqno and, once, its lock seqno from the same counter; a step
\* takes at most one seqno, the counter moves up by one for each seqno taken
\* and never otherwise, and every seqno held is below the counter: the seqnos
\* of one manager are pairwise distinct and increase in the order taken
C18_SeqnosIncrease ==
    /\ []SeqnosBelowCounter
    /\ [][/\ rangesToAssign' # rangesToAssign => (OnlyEnqueued \/ Consumed)
          /\ SeqnosTaken \in {0, 1}
          /\ seqNo' = seqNo + SeqnosTaken
          /\ sent = SubSeq(sent', 1, Len(sent))
          /\ \A i \in NewRequests :
                /\ sent'[i].epoch = epoch
                /\ IF Consumed
                   THEN /\ sent'[i].seqno = seqNo
                        /\ sent'[i].isAssign = Head(rangesToAssign).isAssign
                        /\ KeysOf(sent'[i].keyRange) \subseteq KeysOf(Head(rangesToAssign).keyRange)
                   ELSE /\ assignerWait # <<>>
                        /\ sent'[i].seqno = assignerWait[1].seqno
          /\ (assignerWait = <<>> /\ assignerWait' # <<>>) =>
                (Consumed /\ assignerWait'[1].seqno = seqNo)
          /\ \A t \in DOMAIN splitTasks :
                /\ SplitTook(t) => splitTasks'[t].splitSeqno = seqNo
                /\ LockTook(t) => splitTasks'[t].newLockSeqno = seqNo
                /\ splitTasks[t].splitSeqno # NoSeqno =>
                      splitTasks'[t].splitSeqno = splitTasks[t].splitSeqno
                /\ splitTasks[t].newLockSeqno # NoSeqno =>
                      splitTasks'[t].newLockSeqno = splitTasks[t].newLockSeqno
          /\ \A t \in DOMAIN splitTasks' \ DOMAIN splitTasks :
                /\ splitTasks'[t].splitSeqno = NoSeqno
                /\ splitTasks'[t].newLockSeqno = NoSeqno]_vars

\* a split took its split seqno and then its lock seqno between the seqno of a
\* request sent before it and the seqno of a request sent after it
C18_Witness ==
    \E t \in DOMAIN splitTasks :
        /\ splitTasks[t].splitSeqno # NoSeqno
        /\ splitTasks[t].newLockSeqno > splitTasks[t].splitSeqno
        /\ \E i, j \in 1 .. Len(sent) :
              /\ sent[i].epoch = epoch /\ sent[j].epoch = epoch
              /\ 1 < sent[i].seqno
              /\ sent[i].seqno < splitTasks[t].splitSeqno
              /\ sent[j].seqno > splitTasks[t].newLockSeqno

\* ---------------------------------------------------------------------------
\* splits racing with other changes of the assignments

\* C19: the range assigner never finds more or fewer than one entry of
\* workerAssignments intersecting the range of an Assign it consumed
C19_CountIsOne == assertFailed # "count == 1"

\* maybeSplitRange t puts its Revoke and child Assigns in the queue in this step
SplitEnqueues(t) ==
    /\ t \in DOMAIN splitTasks
    /\ splitTasks[t].pc = "committed"
    /\ splitTasks'[t].pc = "done"
    /\ rangesToAssign' # rangesToAssign

\* workerAssignments has the entry [r.begin, r.end) -> w
MapsExactly(r, w) ==
    LET curr == KRMRangeContaining(workerAssignments, r.begin)
    IN  /\ curr.begin = r.begin
        /\ curr.end = r.end
        /\ curr.value = w

\* C20: when maybeSplitRange puts the Revoke of the parent and the Assigns of
\* the children in the queue, workerAssignments still has the parent range as
\* one entry, owned by the worker that reported it
C20_EnqueueOnlyIfStillOwned ==
    [][\A t \in DOMAIN splitTasks :
          SplitEnqueues(t) => MapsExactly(splitTasks[t].range, splitTasks[t].worker)]_vars

-----------------------------------------------------------------------------
(* Specification SpecRetry: blob workers fail and granules split as in     *)
(* SpecKill, and an attempt of the split transaction may fail or end with  *)
(* an unknown result and be retried                                        *)

NextRetry ==
    \/ NextKill
    \/ \E t \in DOMAIN splitTasks : SplitAttempt(t, "not_committed")
    \/ \E t \in DOMAIN splitTasks : SplitAttempt(t, "unknown")

SpecRetry == Init /\ [][NextRetry]_vars

\* C21: the lock order ASSERT of the split transaction holds in every attempt:
\* (epoch, newLockSeqno) is above the persisted granule lock on the first
\* attempt and not below it on a retry
C21_LockOrderHolds == assertFailed # "lock out of order"

\* C22: the range assigner never consumes a Revoke that names no worker while
\* an entry of workerAssignments intersecting its range reaches outside the range
C22_RevokeNeverTruncates == assertFailed # "revoke truncates range"

\* ---------------------------------------------------------------------------
\* killBlobWorker

\* killBlobWorker starts for worker w in this step
KillStarts(w) == killTasks[w] = "none" /\ killTasks'[w] = "deregistering"

\* what this step put in the queue
Enqueued == SubSeq(rangesToAssign', Len(rangesToAssign) + 1, Len(rangesToAssign'))

\* the ranges workerAssignments gives to worker w, in key order
OwnedRanges(w) ==
    LET its == SelectSeq(KRMRanges(workerAssignments), LAMBDA it : it.value = w)
    IN  [i \in 1 .. Len(its) |-> Range(its[i].begin, its[i].end)]

\* C23: killBlobWorker puts in the queue, for each range the dead worker owns,
\* a Revoke of the range that names the dead worker and next to it an Assign of
\* the same range that names no worker
C23_TargetedRevokeThenAssign ==
    [][\A w \in Workers :
          KillStarts(w) =>
             /\ OnlyEnqueued
             /\ Len(Enqueued) = 2 * Len(OwnedRanges(w))
             /\ \A n \in 1 .. Len(OwnedRanges(w)) :
                   /\ ~Enqueued[2 * n - 1].isAssign
                   /\ Enqueued[2 * n - 1].keyRange = OwnedRanges(w)[n]
                   /\ Enqueued[2 * n - 1].worker = w
                   /\ Enqueued[2 * n].isAssign
                   /\ Enqueued[2 * n].keyRange = OwnedRanges(w)[n]
                   /\ Enqueued[2 * n].worker = NoWorker]_vars

\* ---------------------------------------------------------------------------
\* doRangeAssignment: errors

\* the range assigner takes an Assign for a worker that is not registered any
\* more, and doRangeAssignment throws no_more_servers before it sends anything
ThrowsNoMoreServers ==
    /\ assignerWait = <<>>
    /\ Consumed
    /\ Head(rangesToAssign).isAssign
    /\ Head(rangesToAssign).worker # NoWorker
    /\ Head(rangesToAssign).worker \notin DOMAIN workerStats
    /\ assertFailed' = assertFailed
    /\ workerAssignments' # workerAssignments \/ Len(rangesToAssign') >= Len(rangesToAssign)

\* the two events the queue must get for the failed Assign of range r to worker w
RevokeThenAssign(r, w) ==
    <<[isAssign |-> FALSE, keyRange |-> r, worker |-> w, type |-> "Revoke", dispose |-> FALSE],
      [isAssign |-> TRUE, keyRange |-> r, worker |-> NoWorker, type |-> "Normal", dispose |-> FALSE]>>

\* C24: an Assign request that fails because its worker is gone, or that cannot
\* be sent because its worker is not known any more, puts two events at the end
\* of the queue: the Revoke of the range from that worker, not disposing, and
\* then the Assign of the range with no worker and type Normal, whatever the
\* type of the failed request was
C24_RequeueRevokeThenAssign ==
    [][/\ \A i \in inflight :
             (sent[i].isAssign /\ RpcReplyFailed(i)) =>
                 rangesToAssign' = rangesToAssign \o RevokeThenAssign(sent[i].keyRange, sent[i].worker)
       /\ ThrowsNoMoreServers =>
             /\ sent' = sent
             /\ rangesToAssign' = Tail(rangesToAssign)
                   \o RevokeThenAssign(Head(rangesToAssign).keyRange, Head(rangesToAssign).worker)]_vars

\* a Continue request failed and the queue ends with its Revoke and its Assign of type Normal
C24_Witness ==
    \E i \in 1 .. Len(sent) :
        /\ sent[i].isAssign
        /\ sent[i].type = "Continue"
        /\ i \notin inflight
        /\ sent[i].worker \notin bwAlive
        /\ Len(rangesToAssign) >= 2
        /\ SubSeq(rangesToAssign, Len(rangesToAssign) - 1, Len(rangesToAssign))
              = RevokeThenAssign(sent[i].keyRange, sent[i].worker)

-----------------------------------------------------------------------------
(* granule_assignment_conflict and doLockChecks *)

\* the worker rejected the Assign with granule_assignment_conflict: the granule
\* lock is held with a newer (epoch, seqno) than the request's.  doRangeAssignment
\* sets doLockCheck if it can still be set, and returns.
RpcReplyConflict(i) ==
    /\ Active
    /\ i \in inflight
    /\ sent[i].isAssign
    /\ sent[i].worker \in bwAlive
    /\ \/ managerEpoch > epoch
       \/ /\ sent[i].keyRange \in DOMAIN granuleLocks
          /\ granuleLocks[sent[i].keyRange].epoch = sent[i].epoch
          /\ granuleLocks[sent[i].keyRange].seqno > sent[i].seqno
    /\ inflight' = inflight \ {i}
    /\ doLockCheck' = [doLockCheck EXCEPT
                          !.pc = IF @ = "unset" THEN "set" ELSE @,
                          !.replaced = @ \/ managerEpoch > epoch]
    /\ UNCHANGED <<gcVars, alreadyMoved, recruiting, assignerWait, recVars, rangeVars, bmVars, splitTasks, dbVars,
                   workerAssignments, workerStats, deadWorkers, assignsInProgress, sent, monitor,
                   lastSeenSeqno, killTasks, recruitTriggers, envVars>>

\* the epoch a transaction of the watchdog reads at blobManagerEpochKey
LockCheckReads == managerEpoch

\* doLockChecks: the promise is set, the delay is over, and the read of
\* checkManagerLock is served; after a retryable error the read is done again
LockCheckRead ==
    /\ Active
    /\ doLockCheck.pc \in {"set", "reading"}
    /\ doLockCheck.read # LockCheckReads
    /\ doLockCheck' = [doLockCheck EXCEPT !.pc = "reading", !.read = LockCheckReads]
    /\ UNCHANGED <<gcVars, alreadyMoved, recruiting, assignerWait, recVars, rangeVars, bmVars, splitTasks, dbVars,
                   engVars, envVars>>

\* doLockChecks: checkManagerLock returns.  A newer epoch sets iAmReplaced and
\* ends the actor; otherwise doLockCheck becomes a new promise and the actor
\* waits for it.
LockCheckDone ==
    /\ Active
    /\ doLockCheck.pc = "reading"
    /\ IF doLockCheck.read # epoch
       THEN /\ iAmReplaced' = TRUE
            /\ doLockCheck' = [doLockCheck EXCEPT !.pc = "replaced"]
       ELSE /\ doLockCheck' = [doLockCheck EXCEPT !.pc = "unset", !.read = 0]
            /\ UNCHANGED iAmReplaced
    /\ UNCHANGED <<gcVars, alreadyMoved, recruiting, assignerWait, recVars, rangeVars, epoch, seqNo, rangesToAssign,
                   stopped, assertFailed, nextUID, splitTasks, dbVars, engVars, envVars>>

-----------------------------------------------------------------------------
(* Specification SpecConflict: the manager of Spec with workers that reject *)
(* Assigns and the lock check watchdog                                      *)

NextConflict ==
    \/ ClientChange
    \/ MonitorRead
    \/ MonitorWrite
    \/ MonitorOnEmpty
    \/ RangeAssignerStepUpTo(MaxConflictSeqNo)
    \/ \E i \in inflight : RpcReplyOk(i)
    \/ \E i \in inflight : RpcReplyReplaced(i)
    \/ \E w \in Workers : \E r \in DOMAIN granuleLocks : StatusReport(w, r)
    \/ \E t \in DOMAIN splitTasks : SplitRangeDone(t)
    \/ \E t \in DOMAIN splitTasks : SplitAttemptReplaced(t)
    \/ \E t \in DOMAIN splitTasks : SplitAttempt(t, "committed")
    \/ \E t \in DOMAIN splitTasks : SplitEnqueue(t)
    \/ ManagerElected
    \/ ManagerExits
    \/ \E i \in inflight : RpcReplyConflict(i)
    \/ LockCheckRead
    \/ LockCheckDone

SpecConflict == Init /\ [][NextConflict]_vars

\* the actor collection runs doLockChecks whenever it can take a step
FairSpecConflict == SpecConflict /\ WF_vars(LockCheckRead) /\ WF_vars(LockCheckDone)

\* this step is the conflict handler of doRangeAssignment for request i
ConflictHandled(i) == i \in inflight /\ RpcReplyConflict(i)

\* C25: a conflict reply to an Assign changes neither the queue nor
\* workerAssignments and leaves doLockCheck set; and once a conflict reply has
\* arrived while the persisted manager epoch is above the manager's own, the
\* manager is eventually told that it is replaced, and does not come to rest
\* with nothing queued, in flight or in progress before it is told
C25_ConflictDropsAndFailsOver ==
    /\ [][\A i \in inflight :
             ConflictHandled(i) =>
                /\ rangesToAssign' = rangesToAssign
                /\ workerAssignments' = workerAssignments
                /\ doLockCheck'.pc # "unset"]_vars
    /\ doLockCheck.replaced ~> (iAmReplaced \/ ~Running \/ ~Quiescent)

\* ---------------------------------------------------------------------------
\* the revoke branch of rangeAssigner

\* the range assigner consumes a Revoke in this step and no ASSERT fails
RevokeConsumed ==
    /\ assignerWait = <<>>
    /\ Consumed
    /\ ~Head(rangesToAssign).isAssign
    /\ assertFailed' = assertFailed

\* the number of entries of workerAssignments under range r that worker w owns
OwnedUnder(r, w) ==
    Cardinality({n \in 1 .. Len(KRMIntersecting(workerAssignments, r)) :
                    KRMIntersecting(workerAssignments, r)[n].value = w})

\* C26: consuming a Revoke that names no worker maps every key of its range to
\* no worker, leaves every other key with the worker it had, and takes from
\* the count of every known worker one for each entry under the range it
\* owned; consuming a Revoke that names a worker leaves workerAssignments as
\* it is and takes one from the count of that worker only
C26_RevokeFrame ==
    [][RevokeConsumed =>
          LET ev == Head(rangesToAssign)
          IN  /\ DOMAIN workerStats' = DOMAIN workerStats
              /\ IF ev.worker = NoWorker
                 THEN /\ \A k \in 0 .. (NormalEnd - 1) :
                            workerAssignments'.val[k] =
                               IF k \in KeysOf(ev.keyRange) THEN NoWorker
                               ELSE workerAssignments.val[k]
                      /\ \A w \in DOMAIN workerStats :
                            workerStats'[w] = workerStats[w] - OwnedUnder(ev.keyRange, w)
                 ELSE /\ workerAssignments' = workerAssignments
                      /\ \A w \in DOMAIN workerStats :
                            workerStats'[w] = workerStats[w] - (IF w = ev.worker THEN 1 ELSE 0)]_vars

\* an untargeted Revoke over two ranges of one worker and a key outside the
\* Revoke have been consumed, and so has a Revoke that named a worker
C26_Witness ==
    /\ \E i \in 1 .. Len(sent) : \E j \in (i + 1) .. Len(sent) :
          /\ ~sent[i].isAssign /\ ~sent[j].isAssign
          /\ sent[i].seqno = sent[j].seqno
          /\ sent[i].worker = sent[j].worker
    /\ \E i \in 1 .. Len(sent) :
          /\ ~sent[i].isAssign
          /\ \A j \in 1 .. Len(sent) : (j # i /\ ~sent[j].isAssign) => sent[j].seqno # sent[i].seqno

\* ---------------------------------------------------------------------------
\* monitorBlobWorkerStatus and the epoch of a reply

\* the monitor takes a reply off the status stream in this step
ReplyHandled == reportsSent' = reportsSent + 1

\* nothing is started or enqueued in this step
NothingStarted == splitTasks' = splitTasks /\ rangesToAssign' = rangesToAssign

\* C27 as stated: a reply with an epoch above the manager's own signals the
\* failover, and neither that reply nor a later one starts a maybeSplitRange
\* or enqueues an intent
C27_NewerEpochReplyStartsNothing ==
    [][/\ (ReplyHandled /\ iAmReplaced') => NothingStarted
       /\ iAmReplaced => (NothingStarted /\ ~ReplyHandled)]_vars

\* C27: a reply with an epoch above the manager's own signals the failover and
\* is then handled like any other: it enqueues nothing, and it starts a
\* maybeSplitRange exactly when its range is one entry of workerAssignments
\* owned by the sender and it is not the reply last handled for that range;
\* after the signal no reply is handled, no maybeSplitRange is started and
\* nothing is enqueued
C27_NewerEpochReplyStillHandled ==
    [][/\ \A w \in Workers : \A r \in DOMAIN granuleLocks :
            (StatusReport(w, r) /\ iAmReplaced') =>
                /\ rangesToAssign' = rangesToAssign
                /\ (Len(splitTasks') = Len(splitTasks) + 1) <=>
                      (ReplyOwned(w, r) /\
                       ~ReplyRepeats(w, r, managerEpoch, granuleLocks[r].seqno))
                /\ Len(splitTasks') \in {Len(splitTasks), Len(splitTasks) + 1}
       /\ iAmReplaced => (NothingStarted /\ ~ReplyHandled)]_vars

\* the manager is told that it is replaced by a reply that started a
\* maybeSplitRange, which has not run
C27_Witness ==
    /\ iAmReplaced
    /\ \E t \in DOMAIN splitTasks :
          /\ splitTasks[t].pc = "splitRange"
          /\ KRMRangeContaining(lastSeenSeqno[splitTasks[t].worker],
                                splitTasks[t].range.begin).value[1] > epoch

\* ---------------------------------------------------------------------------
\* monitorBlobWorkerStatus with replies that repeat or come late

NextStatus ==
    \/ RangeAssignerStep
    \/ \E i \in inflight : RpcReplyOk(i)
    \/ \E i \in inflight : RpcReplyFailed(i)
    \/ \E i \in inflight : RpcReplyReplaced(i)
    \/ \E w \in Workers : \E r \in DOMAIN granuleLocks : StatusReply(w, r, MaxRepeats)
    \/ \E t \in DOMAIN splitTasks : SplitRangeDone(t)
    \/ \E t \in DOMAIN splitTasks : SplitAttemptReplaced(t)
    \/ \E t \in DOMAIN splitTasks : SplitAttempt(t, "committed")
    \/ \E t \in DOMAIN splitTasks : SplitEnqueue(t)
    \/ \E w \in Workers : WorkerFails(w)
    \/ \E w \in Workers : KillStart(w)
    \/ \E w \in Workers : DeregisterCommit(w)
    \/ \E w \in Workers : KillFinish(w)
    \/ ManagerElected
    \/ ManagerExits

SpecStatus == Init /\ [][NextStatus]_vars

\* C28: a reply from worker w for range r enqueues nothing, and it starts a
\* maybeSplitRange exactly when the entry of workerAssignments that holds the
\* begin key of r has the bounds of r and owner w and the reply is not the
\* (range, epoch, seqno) last handled for that range by the monitor of w; the
\* task it starts is one task for r on behalf of w
C28_SplitOnlyForOwnedFreshReply ==
    [][\A w \in Workers : \A r \in DOMAIN granuleLocks : \A e \in ReplyEpochs :
          StatusReplyWith(w, r, MaxRepeats, e) =>
             /\ rangesToAssign' = rangesToAssign
             /\ IF ReplyOwned(w, r) /\ ~ReplyRepeats(w, r, e, granuleLocks[r].seqno)
                THEN /\ Len(splitTasks') = Len(splitTasks) + 1
                     /\ SubSeq(splitTasks', 1, Len(splitTasks)) = splitTasks
                     /\ splitTasks'[Len(splitTasks')].worker = w
                     /\ splitTasks'[Len(splitTasks')].range = r
                ELSE splitTasks' = splitTasks /\ lastSeenSeqno' = lastSeenSeqno]_vars

\* two replies were delivered for the only granule there is, both with the
\* manager's own epoch, and one maybeSplitRange was started
C28_Witness ==
    /\ reportsSent = 2
    /\ ~iAmReplaced
    /\ Len(splitTasks) = 1
    /\ DOMAIN granuleLocks = {splitTasks[1].range}
    /\ splitTasks[1].pc = "splitRange"
    /\ ReplyOwned(splitTasks[1].worker, splitTasks[1].range)

\* ---------------------------------------------------------------------------
\* addAssignment alone: calls with any range, worker and (epoch, seqno) on
\* the maps earlier calls built from the map recoverBlobManager starts with

\* (0, 1) is the stamp of the persisted mapping, the others are stamps of managers
AddStamps == {<<0, 1>>, <<1, 1>>, <<1, 2>>, <<2, 1>>}

AddRanges == {Range(b, e) : <<b, e>> \in {p \in (0 .. AddEnd) \X (0 .. AddEnd) : p[1] < p[2]}}

InitAdd ==
    /\ knownBlobRanges = KRMNew(FALSE, NormalEnd)
    /\ rangesToAdd = <<>>
    /\ rangesToRemove = <<>>
    /\ initialKnown = <<>>
    /\ dbActive = [k \in 0 .. (NormalEnd - 1) |-> TRUE]
    /\ netEmitted = <<>>
    /\ epoch = 2
    /\ seqNo = 1
    /\ iAmReplaced = FALSE
    /\ rangesToAssign = <<>>
    /\ stopped = FALSE
    /\ assertFailed = ""
    /\ nextUID = 0
    /\ splitTasks = <<>>
    /\ managerEpoch = 2
    /\ splitBoundaries = <<>>
    /\ splitKeys = <<>>
    /\ historyKeys = <<>>
    /\ bwGranules = [w \in Workers |-> <<>>]
    /\ granuleLocks = <<>>
    /\ workerStats = [w \in Workers |-> 0]
    /\ bwAlive = Workers
    /\ bwList = Workers
    /\ granuleMapping = KRMNew(NoWorker, NormalEnd)
    /\ workerAssignments = KRMNew(NoWorker, NormalEnd)
    /\ deadWorkers = {}
    /\ assignsInProgress = [k \in 0 .. (NormalEnd - 1) |-> 0]
    /\ inflight = {}
    /\ sent = <<>>
    /\ monitor = [pc |-> "recovering", idx |-> 0, ckvBegin |-> 0, lastChange |-> 0]
    /\ lastSeenSeqno = [w \in Workers |-> KRMNew(<<0, 0>>, NormalEnd)]
    /\ killTasks = [w \in Workers |-> "none"]
    /\ recruitTriggers = 0
    /\ changeKey = 0
    /\ staleCommits = {}
    /\ reportsSent = 0
    /\ recovery = [pc |-> "add", calls |-> 0, last |-> <<>>,
                   before |-> KRMNew(<<NoWorker, 0, 0>>, AddEnd),
                   workerAssignments |-> KRMNew(<<NoWorker, 0, 0>>, AddEnd),
                   outOfDate |-> <<>>]
    /\ assignerWait = <<>>
    /\ alreadyMoved = {}
    /\ doLockCheck = LockCheckIdle
    /\ recruiting = RecruitingIdle
    /\ GcIdle

\* one call addAssignment(map, newRange, newId, newEpoch, newSeqno, outOfDate);
\* the ASSERT fails before the map is written
AddAssignmentCall(newRange, newId, newEpoch, newSeqno, track) ==
    /\ Running
    /\ recovery.pc = "add"
    /\ recovery.calls < MaxAddCalls
    /\ \E r \in {addAssignment(recovery.workerAssignments, newRange, newId, newEpoch, newSeqno,
                               <<>>, track)} :
         /\ assertFailed' = IF r.clash THEN "oldEpoch != newEpoch || oldSeqno != newSeqno"
                            ELSE assertFailed
         /\ recovery' = [recovery EXCEPT
                            !.calls = @ + 1,
                            !.last = [range |-> newRange, id |-> newId, epoch |-> newEpoch,
                                      seqno |-> newSeqno, track |-> track],
                            !.before = recovery.workerAssignments,
                            !.workerAssignments = IF r.clash THEN @ ELSE r.map,
                            !.outOfDate = IF r.clash THEN <<>> ELSE r.outOfDate]
    /\ UNCHANGED <<gcVars, alreadyMoved, recruiting, doLockCheck, assignerWait, rangeVars, epoch, seqNo,
                   iAmReplaced, rangesToAssign, stopped, nextUID, splitTasks, dbVars, engVars,
                   envVars, bwGranules>>

NextAdd ==
    \E newRange \in AddRanges : \E newId \in {NoWorker} \cup Workers :
    \E st \in AddStamps : \E track \in BOOLEAN :
        AddAssignmentCall(newRange, newId, st[1], st[2], track)

SpecAdd == InitAdd /\ [][NextAdd]_vars

\* the (epoch, seqno) of a map value <<worker, epoch, seqno>>
Stamp(v) == <<v[2], v[3]>>

StampLess(a, b) == a[1] < b[1] \/ (a[1] = b[1] /\ a[2] < b[2])

LargerStamp(a, b) == IF StampLess(a, b) THEN b ELSE a

\* addAssignment has been called
Added == recovery.pc = "add" /\ recovery.last # <<>>

\* C29: a call of addAssignment with range R and stamp (e, s) leaves every key
\* outside R with the value it had and every key of R with the larger of the
\* stamp it had and (e, s), so no key ever gets a smaller stamp; the call
\* ends the process exactly when it names a worker and some key of R already
\* holds the stamp (e, s)
C29_AddAssignmentKeepsLarger ==
    Added =>
       LET c == recovery.last
           before == recovery.before
           after == recovery.workerAssignments
       IN /\ (assertFailed # "") <=>
                (c.id # NoWorker /\ \E k \in KeysOf(c.range) :
                                       Stamp(before.val[k]) = <<c.epoch, c.seqno>>)
          /\ assertFailed = "" =>
                \A k \in 0 .. (AddEnd - 1) :
                   IF k \in KeysOf(c.range)
                   THEN Stamp(after.val[k]) =
                           LargerStamp(Stamp(before.val[k]), <<c.epoch, c.seqno>>)
                   ELSE after.val[k] = before.val[k]
          /\ \A k \in 0 .. (AddEnd - 1) :
                ~StampLess(Stamp(after.val[k]), Stamp(before.val[k]))

\* a call whose range covered an older entry and a part of a newer entry that
\* reaches beyond the range has returned
C29_Witness ==
    /\ Added
    /\ assertFailed = ""
    /\ \E k1, k2 \in KeysOf(recovery.last.range) :
       \E k3 \in (0 .. (AddEnd - 1)) \ KeysOf(recovery.last.range) :
          /\ StampLess(Stamp(recovery.before.val[k1]), <<recovery.last.epoch, recovery.last.seqno>>)
          /\ StampLess(<<recovery.last.epoch, recovery.last.seqno>>, Stamp(recovery.before.val[k2]))
          /\ KRMRangeContaining(recovery.before, k2) = KRMRangeContaining(recovery.before, k3)
          /\ recovery.workerAssignments.val[k1][1] = recovery.last.id

\* ---------------------------------------------------------------------------
\* recovery with a worker that still reports an assignment it has lost

\* as InitRecover, and when killBlobWorker moved the parent to holder the
\* first owner may be alive after all and report the parent with seqno 1
InitReports ==
    /\ knownBlobRanges = KRMNew(FALSE, NormalEnd)
    /\ rangesToAdd = <<>>
    /\ rangesToRemove = <<>>
    /\ initialKnown = <<>>
    /\ dbActive = [k \in 0 .. (NormalEnd - 1) |-> TRUE]
    /\ netEmitted = <<>>
    /\ epoch = 2
    /\ seqNo = 1
    /\ iAmReplaced = FALSE
    /\ rangesToAssign = <<>>
    /\ stopped = FALSE
    /\ assertFailed = ""
    /\ nextUID = 0
    /\ splitTasks = <<>>
    /\ managerEpoch = 2
    /\ \E keys \in SUBSET (0 .. NormalEnd) :
         /\ {0, NormalEnd} \subseteq keys
         /\ Cardinality(keys) >= 3
         /\ splitBoundaries = (101 :> [marker |-> <<1, 2>>, keys |-> keys])
         /\ splitKeys = [k \in {<<101, i>> : i \in 1 .. (Cardinality(keys) - 1)} |-> 1]
         /\ historyKeys =
              ApplyHistory(<<>>, [i \in 1 .. (Cardinality(keys) - 1) |->
                  [key |-> <<Range(SortedSeq(keys)[i], SortedSeq(keys)[i + 1]), 2>>,
                   value |-> [granuleID |-> i, parentRange |-> AllKeys, parentVersion |-> 1]]])
    /\ \E holder \in Workers : \E reassigned \in BOOLEAN : \E stale \in BOOLEAN :
         /\ bwGranules = [w \in Workers |->
                             IF w = holder
                             THEN <<[range |-> AllKeys, epoch |-> 1,
                                     seqno |-> IF reassigned THEN 5 ELSE 1]>>
                             ELSE IF reassigned /\ stale
                                  THEN <<[range |-> AllKeys, epoch |-> 1, seqno |-> 1]>>
                                  ELSE <<>>]
         /\ granuleLocks = (AllKeys :> [epoch |-> 1, seqno |-> IF reassigned THEN 5 ELSE 3,
                                        granuleID |-> 101])
    /\ \E registered \in SUBSET Workers :
         /\ registered # {}
         /\ workerStats = [w \in registered |-> 0]
         /\ bwAlive = registered
         /\ bwList = registered
    /\ \E owner \in {NoWorker} \cup Workers : granuleMapping = KRMNew(owner, NormalEnd)
    /\ workerAssignments = KRMNew(NoWorker, NormalEnd)
    /\ deadWorkers = {}
    /\ assignsInProgress = [k \in 0 .. (NormalEnd - 1) |-> 0]
    /\ inflight = {}
    /\ sent = <<>>
    /\ monitor = [pc |-> "recovering", idx |-> 0, ckvBegin |-> 0, lastChange |-> 0]
    /\ lastSeenSeqno = [w \in Workers |-> KRMNew(<<0, 0>>, NormalEnd)]
    /\ killTasks = [w \in Workers |-> "none"]
    /\ recruitTriggers = 0
    /\ changeKey = 0
    /\ staleCommits = {}
    /\ reportsSent = 0
    /\ recovery = [pc |-> "splits",
                   inProgressSplits |-> KRMNew(<<NoWorker, 0, 0>>, NormalEnd),
                   workerAssignments |-> KRMNew(<<NoWorker, 0, 0>>, NormalEnd),
                   outOfDate |-> <<>>, responded |-> {}, enqueued |-> <<>>]
    /\ assignerWait = <<>>
    /\ alreadyMoved = {}
    /\ doLockCheck = LockCheckIdle
    /\ recruiting = RecruitingIdle
    /\ GcIdle

SpecReports == InitReports /\ [][NextRecover]_vars

\* the assignments the workers that answered reported, as <<worker, report>>
Reported ==
    {<<w, bwGranules[w][i]>> : <<w, i>> \in
        {p \in recovery.responded \X (1 .. NormalEnd) : p[2] <= Len(bwGranules[p[1]])}}

\* on key k the report g has a smaller (epoch, seqno) than another report or
\* than the children of an in-progress split
LosesOn(g, k) ==
    \/ \E o \in Reported :
          /\ k \in KeysOf(o[2].range)
          /\ StampLess(<<g.epoch, g.seqno>>, <<o[2].epoch, o[2].seqno>>)
    \/ \E p \in DOMAIN splitBoundaries :
          /\ k \in KeysOf(ParentRange(p))
          /\ StampLess(<<g.epoch, g.seqno>>, splitBoundaries[p].marker)

Loses(g) == \E k \in KeysOf(g.range) : LosesOn(g, k)

\* the workers have answered and every addAssignment of recovery has returned
Resolved == Recovering /\ recovery.pc \in {"lock", "done"} /\ assertFailed = ""

\* C30: once recovery has merged the reports, the mapping and the splits, a
\* reported assignment (w, R, epoch, seqno) is in outOfDateAssignments exactly
\* when it has a smaller (epoch, seqno) than another entry on some key of R,
\* and when recovery has sent its events a Revoke of R that names w is among
\* them exactly in that case
C30_RevokeIffLoses ==
    Resolved =>
       \A rep \in Reported :
          /\ (\E i \in 1 .. Len(recovery.outOfDate) :
                 recovery.outOfDate[i] = <<rep[1], rep[2].range>>) <=> Loses(rep[2])
          /\ recovery.pc = "done" =>
                ((\E i \in 1 .. Len(recovery.enqueued) :
                     recovery.enqueued[i] = RevokeEvent(rep[2].range, rep[1], FALSE))
                 <=> Loses(rep[2]))

\* ---------------------------------------------------------------------------
\* the end of recoverBlobManager: installs and explicit assignments

\* as InitRecover, and the manager of epoch 1 may have left no split in progress
InitOwners ==
    /\ knownBlobRanges = KRMNew(FALSE, NormalEnd)
    /\ rangesToAdd = <<>>
    /\ rangesToRemove = <<>>
    /\ initialKnown = <<>>
    /\ dbActive = [k \in 0 .. (NormalEnd - 1) |-> TRUE]
    /\ netEmitted = <<>>
    /\ epoch = 2
    /\ seqNo = 1
    /\ iAmReplaced = FALSE
    /\ rangesToAssign = <<>>
    /\ stopped = FALSE
    /\ assertFailed = ""
    /\ nextUID = 0
    /\ splitTasks = <<>>
    /\ managerEpoch = 2
    /\ \/ /\ splitBoundaries = (101 :> [marker |-> <<1, 2>>, keys |-> {0, 1, NormalEnd}])
          /\ splitKeys = [k \in {<<101, i>> : i \in 1 .. 2} |-> 1]
          /\ historyKeys =
               ApplyHistory(<<>>, [i \in 1 .. 2 |->
                   [key |-> <<Range(SortedSeq({0, 1, NormalEnd})[i],
                                    SortedSeq({0, 1, NormalEnd})[i + 1]), 2>>,
                    value |-> [granuleID |-> i, parentRange |-> AllKeys, parentVersion |-> 1]]])
       \/ /\ splitBoundaries = <<>>
          /\ splitKeys = <<>>
          /\ historyKeys = <<>>
    /\ \E holder \in Workers : \E reassigned \in BOOLEAN :
         /\ bwGranules = [w \in Workers |->
                             IF w = holder
                             THEN <<[range |-> AllKeys, epoch |-> 1,
                                     seqno |-> IF reassigned THEN 5 ELSE 1]>>
                             ELSE <<>>]
         /\ granuleLocks = (AllKeys :> [epoch |-> 1, seqno |-> IF reassigned THEN 5 ELSE 3,
                                        granuleID |-> 101])
    /\ \E registered \in SUBSET Workers :
         /\ registered # {}
         /\ workerStats = [w \in registered |-> 0]
         /\ bwAlive = registered
         /\ bwList = registered
    /\ \E owner \in {NoWorker} \cup Workers : granuleMapping = KRMNew(owner, NormalEnd)
    /\ workerAssignments = KRMNew(NoWorker, NormalEnd)
    /\ deadWorkers = {}
    /\ assignsInProgress = [k \in 0 .. (NormalEnd - 1) |-> 0]
    /\ inflight = {}
    /\ sent = <<>>
    /\ monitor = [pc |-> "recovering", idx |-> 0, ckvBegin |-> 0, lastChange |-> 0]
    /\ lastSeenSeqno = [w \in Workers |-> KRMNew(<<0, 0>>, NormalEnd)]
    /\ killTasks = [w \in Workers |-> "none"]
    /\ recruitTriggers = 0
    /\ changeKey = 0
    /\ staleCommits = {}
    /\ reportsSent = 0
    /\ recovery = [pc |-> "splits",
                   inProgressSplits |-> KRMNew(<<NoWorker, 0, 0>>, NormalEnd),
                   workerAssignments |-> KRMNew(<<NoWorker, 0, 0>>, NormalEnd),
                   outOfDate |-> <<>>, responded |-> {}, enqueued |-> <<>>]
    /\ assignerWait = <<>>
    /\ alreadyMoved = {}
    /\ doLockCheck = LockCheckIdle
    /\ recruiting = RecruitingIdle
    /\ GcIdle

SpecOwners == InitOwners /\ [][NextRecover]_vars

\* recoverBlobManager passes its last lock check and sends its events in this step
RecoveryEnds == Recovering /\ recovery.pc = "lock" /\ recovery'.pc = "done"

\* the intervals of the reconciled map whose (epoch, seqno) is not (0, 0)
FinalIntervals ==
    {it \in {KRMRanges(recovery.workerAssignments)[i] :
                i \in 1 .. Len(KRMRanges(recovery.workerAssignments))} :
        ~(it.value[2] = 0 /\ it.value[3] = 0)}

\* the Assigns of range r among the events sent in this step
AssignsSent(r) ==
    {i \in 1 .. Len(Enqueued) : Enqueued[i].isAssign /\ Enqueued[i].keyRange = r}

\* the interval is owned by a worker that reported it and is still known
OwnerReportedAndKnown(it) ==
    it.value[1] # NoWorker /\ it.value[2] # 0 /\ it.value[1] \in DOMAIN workerStats

\* C31 as stated: when recovery ends, an interval of the reconciled map owned
\* by a known worker that reported it is installed and gets no Assign; every
\* other mapped interval gets exactly one Assign, and that Assign names no worker
C31_InstallOrFreshAssign ==
    [][RecoveryEnds =>
          \A it \in FinalIntervals :
             LET r == Range(it.begin, it.end)
             IN IF OwnerReportedAndKnown(it)
                THEN /\ AssignsSent(r) = {}
                     /\ \A k \in KeysOf(r) : workerAssignments'.val[k] = it.value[1]
                ELSE /\ Cardinality(AssignsSent(r)) = 1
                     /\ \A i \in AssignsSent(r) : Enqueued[i].worker = NoWorker]_vars

\* C31: when recovery ends, every mapped interval of the reconciled map is
\* installed under the owner the map gives it; an interval owned by a known
\* worker that reported it gets no Assign, every other one gets exactly one
\* Assign, and that Assign names the owner the map gives the interval
C31_InstallAndAssignToRecordedOwner ==
    [][RecoveryEnds =>
          \A it \in FinalIntervals :
             LET r == Range(it.begin, it.end)
             IN /\ \A k \in KeysOf(r) : workerAssignments'.val[k] = it.value[1]
                /\ IF OwnerReportedAndKnown(it)
                   THEN AssignsSent(r) = {}
                   ELSE /\ Cardinality(AssignsSent(r)) = 1
                        /\ \A i \in AssignsSent(r) : Enqueued[i].worker = it.value[1]]_vars

\* recovery has ended with an Assign that names the worker of the persisted mapping
C31_Witness ==
    /\ Recovering
    /\ recovery.pc = "done"
    /\ \E i \in 1 .. Len(recovery.enqueued) :
          /\ recovery.enqueued[i].isAssign
          /\ recovery.enqueued[i].worker # NoWorker
          /\ \A k \in KeysOf(recovery.enqueued[i].keyRange) :
                granuleMapping.val[k] = recovery.enqueued[i].worker

\* ---------------------------------------------------------------------------
\* recovery with reports that overlap in part

\* what the manager of epoch 1 left: it assigned [0, NormalEnd) to first with
\* seqno 1; later it sent a Revoke of that range, which first never received,
\* and assigned a part of the range to second with seqno 3.  A split of the
\* whole range may be persisted as in InitOwners.
InitPartial ==
    /\ knownBlobRanges = KRMNew(FALSE, NormalEnd)
    /\ rangesToAdd = <<>>
    /\ rangesToRemove = <<>>
    /\ initialKnown = <<>>
    /\ dbActive = [k \in 0 .. (NormalEnd - 1) |-> TRUE]
    /\ netEmitted = <<>>
    /\ epoch = 2
    /\ seqNo = 1
    /\ iAmReplaced = FALSE
    /\ rangesToAssign = <<>>
    /\ stopped = FALSE
    /\ assertFailed = ""
    /\ nextUID = 0
    /\ splitTasks = <<>>
    /\ managerEpoch = 2
    /\ \/ /\ splitBoundaries = (101 :> [marker |-> <<1, 2>>, keys |-> {0, 1, NormalEnd}])
          /\ splitKeys = [k \in {<<101, i>> : i \in 1 .. 2} |-> 1]
          /\ historyKeys =
               ApplyHistory(<<>>, [i \in 1 .. 2 |->
                   [key |-> <<Range(SortedSeq({0, 1, NormalEnd})[i],
                                    SortedSeq({0, 1, NormalEnd})[i + 1]), 2>>,
                    value |-> [granuleID |-> i, parentRange |-> AllKeys, parentVersion |-> 1]]])
       \/ /\ splitBoundaries = <<>>
          /\ splitKeys = <<>>
          /\ historyKeys = <<>>
    /\ \E first \in Workers : \E second \in Workers \ {first} :
       \E part \in {Range(0, 1), Range(1, NormalEnd)} :
         /\ bwGranules = [w \in Workers |->
                             IF w = first
                             THEN <<[range |-> AllKeys, epoch |-> 1, seqno |-> 1]>>
                             ELSE IF w = second
                                  THEN <<[range |-> part, epoch |-> 1, seqno |-> 3]>>
                                  ELSE <<>>]
         /\ granuleLocks = (AllKeys :> [epoch |-> 1, seqno |-> 1, granuleID |-> 101])
                            @@ (part :> [epoch |-> 1, seqno |-> 3, granuleID |-> 102])
    /\ \E registered \in SUBSET Workers :
         /\ registered # {}
         /\ workerStats = [w \in registered |-> 0]
         /\ bwAlive = registered
         /\ bwList = registered
    /\ \E owner \in {NoWorker} \cup Workers : granuleMapping = KRMNew(owner, NormalEnd)
    /\ workerAssignments = KRMNew(NoWorker, NormalEnd)
    /\ deadWorkers = {}
    /\ assignsInProgress = [k \in 0 .. (NormalEnd - 1) |-> 0]
    /\ inflight = {}
    /\ sent = <<>>
    /\ monitor = [pc |-> "recovering", idx |-> 0, ckvBegin |-> 0, lastChange |-> 0]
    /\ lastSeenSeqno = [w \in Workers |-> KRMNew(<<0, 0>>, NormalEnd)]
    /\ killTasks = [w \in Workers |-> "none"]
    /\ recruitTriggers = 0
    /\ changeKey = 0
    /\ staleCommits = {}
    /\ reportsSent = 0
    /\ recovery = [pc |-> "splits",
                   inProgressSplits |-> KRMNew(<<NoWorker, 0, 0>>, NormalEnd),
                   workerAssignments |-> KRMNew(<<NoWorker, 0, 0>>, NormalEnd),
                   outOfDate |-> <<>>, responded |-> {}, enqueued |-> <<>>]
    /\ assignerWait = <<>>
    /\ alreadyMoved = {}
    /\ doLockCheck = LockCheckIdle
    /\ recruiting = RecruitingIdle
    /\ GcIdle

SpecPartial == InitPartial /\ [][NextRecover]_vars

\* the Revokes among the events sent in this step that name worker w and overlap r
RevokesSent(r, w) ==
    {i \in 1 .. Len(Enqueued) :
        /\ ~Enqueued[i].isAssign
        /\ Enqueued[i].worker = w
        /\ Overlaps(Enqueued[i].keyRange, r)}

\* C32: when recovery ends, an interval that is installed for a live worker
\* w without an Assign overlaps no range of a Revoke that recovery sends to w
C32_InstalledIsNotRevoked ==
    [][RecoveryEnds =>
          \A it \in FinalIntervals :
             (OwnerReportedAndKnown(it) /\ it.value[1] \in bwAlive
              /\ AssignsSent(Range(it.begin, it.end)) = {}) =>
                 RevokesSent(Range(it.begin, it.end), it.value[1]) = {}]_vars

----------------------------------------------------------------------------
(* Specification SpecClient: monitorClientRanges of the manager of epoch 1 *)
(* has read one added client range inside [0, SplitKeys) and waits for     *)
(* splitRange                                                              *)

ClientRanges == {Range(a, b) : <<a, b>> \in {p \in (0 .. SplitKeys) \X (0 .. SplitKeys) : p[1] < p[2]}}

InitClient ==
    /\ \E r \in ClientRanges :
          /\ knownBlobRanges = KRMInsert(KRMNew(FALSE, SplitKeys), r, TRUE)
          /\ rangesToAdd = <<r>>
    /\ rangesToRemove = <<>>
    /\ initialKnown = <<>>
    /\ dbActive = <<>>
    /\ netEmitted = <<>>
    /\ epoch = 1
    /\ seqNo = 1
    /\ iAmReplaced = FALSE
    /\ rangesToAssign = <<>>
    /\ stopped = FALSE
    /\ assertFailed = ""
    /\ nextUID = 0
    /\ splitTasks = <<>>
    /\ managerEpoch = 1
    /\ granuleLocks = <<>>
    /\ splitBoundaries = <<>>
    /\ splitKeys = <<>>
    /\ historyKeys = <<>>
    /\ workerAssignments = KRMNew(NoWorker, SplitKeys)
    /\ workerStats = [w \in Workers |-> 0]
    /\ deadWorkers = {}
    /\ assignsInProgress = [k \in 0 .. (SplitKeys - 1) |-> 0]
    /\ inflight = {}
    /\ sent = <<>>
    /\ monitor = [pc |-> "write", idx |-> 1, ckvBegin |-> 1, lastChange |-> 0]
    /\ lastSeenSeqno = [w \in Workers |-> KRMNew(<<0, 0>>, SplitKeys)]
    /\ killTasks = [w \in Workers |-> "none"]
    /\ recruitTriggers = 0
    /\ bwAlive = Workers
    /\ bwList = Workers
    /\ changeKey = 1
    /\ granuleMapping = KRMNew(NoWorker, SplitKeys)
    /\ staleCommits = {}
    /\ reportsSent = 0
    /\ recovery = <<>>
    /\ bwGranules = <<>>
    /\ assignerWait = <<>>
    /\ alreadyMoved = {}
    /\ doLockCheck = LockCheckIdle
    /\ recruiting = RecruitingIdle
    /\ GcIdle

NextClient ==
    \/ MonitorWrite
    \/ ManagerElected

SpecClient == InitClient /\ [][NextClient]_vars

\* monitorClientRanges persists the granules of an added range and sends their Assigns
ClientRangeWritten == Active /\ monitor.pc = "write" /\ monitor'.pc = "onEmpty"

\* the boundaries of map m from r.begin to r.end
BoundariesIn(m, r) == {k \in m.bounds \cup {m.mapEnd} : r.begin <= k /\ k <= r.end}

\* C33: for a client range added, monitorClientRanges persists at most
\* maxSplitFanout + 1 boundaries and sends at most maxSplitFanout Assigns
C33_ClientRangeFanoutCapped ==
    [][ClientRangeWritten =>
          /\ Cardinality(BoundariesIn(granuleMapping', rangesToAdd[monitor.idx])) <= maxSplitFanout + 1
          /\ Len(rangesToAssign') - Len(rangesToAssign) <= maxSplitFanout]_vars

----------------------------------------------------------------------------
(* the classification of the granules pruneRange visits *)

\* the record of pruneRange holds the locals of a walk
PruneWalked == prune.pc \in {"visit", "full", "partial", "clear", "done"}

\* the version at which the visited granule x ended: the version of a visited
\* granule that names x as its parent, or MAX_VERSION when x is active
EndVersionOf(x) ==
    LET children == {c \in DOMAIN prune.seen : ParentOf(x, c)}
    IN  IF children = {} THEN MAX_VERSION
        ELSE (CHOOSE c \in children : \A d \in children : c[2] <= d[2])[2]

FullyScheduled == {prune.toFullyDelete[n].granuleID : n \in DOMAIN prune.toFullyDelete}

PartiallyScheduled == {prune.toPartiallyDelete[n] : n \in DOMAIN prune.toPartiallyDelete}

----------------------------------------------------------------------------
(* Specification SpecFiles: partiallyDeleteGranule on the files of one      *)
(* active granule that started at GranuleStart, called for one prune        *)
(* intent after the other while its blob worker goes on writing files.      *)
(* fileKeys holds the file keys of the granule: the versions of its         *)
(* snapshot files and of its delta files, in key order.                     *)

\* history version of the granule; its first snapshot file has this version
GranuleStart == 1

\* largest version of a file
MaxFileVersion == 4

invalidVersion == -1

\* the loop over files.snapshotFiles from the back: idx is the C++ index
RECURSIVE SnapshotLoop(_, _, _, _, _)
SnapshotLoop(snapshotFiles, idx, pruneVersion, latestSnapshotVersion, deleted) ==
    IF idx < 0 THEN [latestSnapshotVersion |-> latestSnapshotVersion, deleted |-> deleted]
    ELSE IF latestSnapshotVersion # invalidVersion
    THEN SnapshotLoop(snapshotFiles, idx - 1, pruneVersion, latestSnapshotVersion,
                      deleted \cup {SeqAt(snapshotFiles, idx)})
    ELSE IF SeqAt(snapshotFiles, idx) <= pruneVersion
    THEN SnapshotLoop(snapshotFiles, idx - 1, pruneVersion, SeqAt(snapshotFiles, idx), deleted)
    ELSE SnapshotLoop(snapshotFiles, idx - 1, pruneVersion, latestSnapshotVersion, deleted)

\* the loop over files.deltaFiles from the front, left at the first file past
\* latestSnapshotVersion
RECURSIVE DeltaLoop(_, _, _, _)
DeltaLoop(deltaFiles, idx, latestSnapshotVersion, deleted) ==
    IF idx >= Len(deltaFiles) THEN deleted
    ELSE IF SeqAt(deltaFiles, idx) > latestSnapshotVersion THEN deleted
    ELSE DeltaLoop(deltaFiles, idx + 1, latestSnapshotVersion, deleted \cup {SeqAt(deltaFiles, idx)})

\* partiallyDeleteGranule(granuleId, pruneVersion) for the active granule, which
\* pruneRange schedules when its start version is below pruneVersion
PartiallyDeleteGranule(pruneVersion) ==
    /\ Active
    /\ prune.pc = "files"
    /\ prune.calls < MaxSweeps
    /\ GranuleStart < pruneVersion
    /\ LET snaps == SnapshotLoop(fileKeys.snapshotFiles, Len(fileKeys.snapshotFiles) - 1,
                                 pruneVersion, invalidVersion, {})
           Without(files, deleted) == SelectSeq(files, LAMBDA v : v \notin deleted)
       IN  IF snaps.latestSnapshotVersion = invalidVersion
           THEN /\ assertFailed' = "latestSnapshotVersion != invalidVersion"
                /\ UNCHANGED fileKeys
           ELSE /\ fileKeys' =
                      [snapshotFiles |-> Without(fileKeys.snapshotFiles, snaps.deleted),
                       deltaFiles |-> Without(fileKeys.deltaFiles,
                                              DeltaLoop(fileKeys.deltaFiles, 0,
                                                        snaps.latestSnapshotVersion, {}))]
                /\ UNCHANGED assertFailed
    /\ prune' = [prune EXCEPT !.calls = @ + 1, !.pruneVersion = pruneVersion]
    /\ UNCHANGED <<pruneIntents, pruneChangeKey, assignerWait, alreadyMoved, recruiting, doLockCheck, recVars,
                   rangeVars, epoch, seqNo, iAmReplaced, rangesToAssign, stopped, nextUID,
                   splitTasks, dbVars, engVars, envVars>>

\* the blob worker of the granule writes a snapshot file or a delta file at a
\* version past those of its files
FileWritten(snapshot, v) ==
    /\ Active
    /\ prune.pc = "files"
    /\ \A n \in DOMAIN fileKeys.snapshotFiles : fileKeys.snapshotFiles[n] < v
    /\ \A n \in DOMAIN fileKeys.deltaFiles : fileKeys.deltaFiles[n] < v
    /\ fileKeys' = IF snapshot
                   THEN [fileKeys EXCEPT !.snapshotFiles = Append(@, v)]
                   ELSE [fileKeys EXCEPT !.deltaFiles = Append(@, v)]
    /\ UNCHANGED <<pruneIntents, pruneChangeKey, prune, assignerWait, alreadyMoved, recruiting, doLockCheck,
                   recVars, rangeVars, bmVars, splitTasks, dbVars, engVars, envVars>>

InitFiles ==
    /\ workerAssignments = <<>>
    /\ workerStats = <<>>
    /\ deadWorkers = {}
    /\ assignsInProgress = <<>>
    /\ inflight = {}
    /\ sent = <<>>
    /\ monitor = <<>>
    /\ lastSeenSeqno = <<>>
    /\ killTasks = <<>>
    /\ recruitTriggers = 0
    /\ bwAlive = {}
    /\ bwList = {}
    /\ changeKey = 0
    /\ granuleMapping = <<>>
    /\ staleCommits = {}
    /\ reportsSent = 0
    /\ recovery = <<>>
    /\ bwGranules = <<>>
    /\ assignerWait = <<>>
    /\ alreadyMoved = {}
    /\ doLockCheck = LockCheckIdle
    /\ recruiting = RecruitingIdle
    /\ pruneIntents = <<>>
    /\ pruneChangeKey = 0
    /\ prune = [pc |-> "files", calls |-> 0, pruneVersion |-> 0]
    /\ \E later \in SUBSET ((GranuleStart + 1) .. (MaxFileVersion - 1)) :
       \E deltas \in SUBSET (GranuleStart .. (MaxFileVersion - 1)) :
          fileKeys = [snapshotFiles |-> <<GranuleStart>> \o SortedSeq(later),
                      deltaFiles |-> SortedSeq(deltas)]
    /\ knownBlobRanges = KRMNew(TRUE, NormalEnd)
    /\ rangesToAdd = <<>>
    /\ rangesToRemove = <<>>
    /\ initialKnown = <<>>
    /\ dbActive = <<>>
    /\ netEmitted = <<>>
    /\ epoch = 1
    /\ seqNo = 1
    /\ iAmReplaced = FALSE
    /\ rangesToAssign = <<>>
    /\ stopped = FALSE
    /\ assertFailed = ""
    /\ nextUID = 0
    /\ splitTasks = <<>>
    /\ managerEpoch = 1
    /\ granuleLocks = <<>>
    /\ splitBoundaries = <<>>
    /\ splitKeys = <<>>
    /\ historyKeys = <<>>

NextFiles ==
    \/ \E pruneVersion \in PruneVersions : PartiallyDeleteGranule(pruneVersion)
    \/ \E snapshot \in BOOLEAN : \E v \in GranuleStart .. MaxFileVersion : FileWritten(snapshot, v)

SpecFiles == InitFiles /\ [][NextFiles]_vars

\* a partiallyDeleteGranule call that passed its assertion
PartialDeleteDone ==
    /\ prune.pc = "files" /\ prune'.pc = "files"
    /\ prune'.calls = prune.calls + 1
    /\ assertFailed' = ""

VersionsOf(files) == {files[n] : n \in DOMAIN files}

\* the newest snapshot file at or before version v
NewestSnapshotUpTo(v) ==
    LET upTo == {s \in VersionsOf(fileKeys.snapshotFiles) : s <= v}
    IN  CHOOSE s \in upTo : \A t \in upTo : t <= s

\* a partial delete that passed its assertion removes the snapshot files older
\* than the newest snapshot at or before the prune version and the delta files
\* up to the version of that snapshot, and keeps every other file
PartialDeleteRemovesExactly ==
    [][PartialDeleteDone =>
          LET newest == NewestSnapshotUpTo(prune'.pruneVersion)
          IN  /\ VersionsOf(fileKeys'.snapshotFiles) =
                    {s \in VersionsOf(fileKeys.snapshotFiles) : s >= newest}
              /\ VersionsOf(fileKeys'.deltaFiles) =
                    {d \in VersionsOf(fileKeys.deltaFiles) : d > newest}]_vars

\* C35: for every granule scheduled for partial deletion a snapshot file with a
\* version at or before the prune version exists: the assertion of
\* partiallyDeleteGranule holds
C35_PartialDeleteFindsSnapshot ==
    prune.pc = "files" => assertFailed # "latestSnapshotVersion != invalidVersion"

----------------------------------------------------------------------------
(* Specification SpecSeed: pruneRange reads the active granules while the   *)
(* range assigner works through the events maybeSplitRange sent for the     *)
(* split of one of them (SplitEnqueue)                                      *)

InitSeed ==
    /\ \E h \in GcHistories(1) : \E leaf \in h.leaves :
       \E m \in (leaf[1].begin + 1) .. (leaf[1].end - 1) :
         /\ historyKeys = h.hist
         /\ fileKeys = {h.hist[x].granuleID : x \in DOMAIN h.hist}
         /\ workerAssignments = [bounds |-> {x[1].begin : x \in h.leaves},
                                 val |-> [k \in 0 .. (GcKeys - 1) |-> 1],
                                 mapEnd |-> GcKeys]
         /\ rangesToAssign = <<RevokeEvent(leaf[1], 1, FALSE),
                                AssignEvent(Range(leaf[1].begin, m), NoWorker, "Normal"),
                                AssignEvent(Range(m, leaf[1].end), NoWorker, "Normal")>>
    /\ pruneIntents = <<>>
    /\ pruneChangeKey = 0
    /\ prune = [pc |-> "watch", sweeps |-> 0]
    /\ knownBlobRanges = KRMNew(TRUE, GcKeys)
    /\ rangesToAdd = <<>>
    /\ rangesToRemove = <<>>
    /\ initialKnown = <<>>
    /\ dbActive = [k \in 0 .. (GcKeys - 1) |-> TRUE]
    /\ netEmitted = <<>>
    /\ epoch = 1
    /\ seqNo = 1
    /\ iAmReplaced = FALSE
    /\ stopped = FALSE
    /\ assertFailed = ""
    /\ nextUID = 0
    /\ splitTasks = <<>>
    /\ managerEpoch = 1
    /\ granuleLocks = <<>>
    /\ splitBoundaries = <<>>
    /\ splitKeys = <<>>
    /\ workerStats = [w \in {1} |-> Cardinality(workerAssignments.bounds)]
    /\ deadWorkers = {}
    /\ assignsInProgress = [k \in 0 .. (GcKeys - 1) |-> 0]
    /\ inflight = {}
    /\ sent = <<>>
    /\ monitor = [pc |-> "watch", idx |-> 0, ckvBegin |-> 0, lastChange |-> 0]
    /\ lastSeenSeqno = [w \in {1} |-> KRMNew(<<0, 0>>, GcKeys)]
    /\ killTasks = [w \in {1} |-> "none"]
    /\ recruitTriggers = 0
    /\ bwAlive = {1}
    /\ bwList = {1}
    /\ changeKey = 0
    /\ granuleMapping = workerAssignments
    /\ staleCommits = {}
    /\ reportsSent = 0
    /\ recovery = <<>>
    /\ bwGranules = <<>>
    /\ assignerWait = <<>>
    /\ alreadyMoved = {}
    /\ doLockCheck = LockCheckIdle
    /\ recruiting = RecruitingIdle

NextSeed ==
    \/ \E s \in PruneStarts : \E version \in PruneVersions : \E force \in BOOLEAN :
          IntentWritten(s, GcKeys, version, force)
    \/ MonitorPruneScan
    \/ PruneLoad
    \/ RangeAssignerStep
    \/ \E i \in inflight : RpcReplyOk(i)

SpecSeed == InitSeed /\ [][NextSeed]_vars

\* the ranges of the intervals its that pruneRange puts in its queue: those
\* inside the prune range that have a history entry
SeedOf(its) ==
    {Range(its[n].begin, its[n].end) : n \in {k \in DOMAIN its :
        /\ its[k].begin >= prune.startKey /\ its[k].end <= prune.endKey
        /\ LatestHistoryVersions(Range(its[k].begin, its[k].end)) # {}}}

\* the ranges in the queue of pruneRange
Seeded == {prune.historyEntryQueue[n][1] : n \in DOMAIN prune.historyEntryQueue}

\* C36: the active granules the walk of a prune starts from are the entries of
\* workerAssignments inside the prune range at one instant: those at the time
\* pruneRange started or, after the one change made meanwhile, those at the
\* time its loop over the active ranges ended
C36_SeedFromOneInstant ==
    prune.pc = "visit" =>
        \/ Seeded = SeedOf(prune.activeRanges)
        \/ Seeded = SeedOf(KRMIntersecting(workerAssignments,
                                           Range(prune.startKey, prune.endKey)))

----------------------------------------------------------------------------
(* the history lookups of pruneRange *)

\* the history key pruneRange reads next in its walk
NextLookup == <<Head(prune.historyEntryQueue)[1], Head(prune.historyEntryQueue)[2]>>

\* C37: every history entry the walk of pruneRange looks up is persisted: the
\* assertion persistedHistory.present() holds
C37_LookedUpHistoryPresent ==
    (prune.pc = "visit" /\ prune.historyEntryQueue # <<>>) => NextLookup \in DOMAIN historyKeys

----------------------------------------------------------------------------
(* Specification SpecWorkers: blobWorkerRecruiter / initializeBlobWorker,   *)
(* checkBlobWorkerList and killBlobWorker of the manager of epoch 1, which  *)
(* starts without blob workers and without granules                         *)

\* reads of the worker list by checkBlobWorkerList
MaxListReads == 2

\* ids a blob worker can get: more ids than processes
BwIds == 1 .. (NumWorkers + 1)

\* a blob worker the manager hears of, from the worker list or from the reply
\* to InitializeBlobWorkerRequest: unless it is in deadWorkers it is added to
\* workerAddresses, workersById and workerStats and monitored when its address
\* is free, and killed as unregistered when it is not known.
\* st: [stats, addrs, kills, tasks]
WorkerFound(st, w) ==
    IF w \in deadWorkers THEN st
    ELSE IF BwAddr(w) \notin st.addrs
    THEN [st EXCEPT !.addrs = @ \cup {BwAddr(w)},
                    !.stats = [v \in DOMAIN @ \cup {w} |-> IF v = w THEN 0 ELSE @[v]],
                    !.tasks = [@ EXCEPT ![w] = IF @ = "done" THEN "none" ELSE @]]
    ELSE IF w \notin DOMAIN st.stats
    THEN [st EXCEPT !.kills = @ \cup {w}]
    ELSE st

RECURSIVE WorkersFound(_, _)
WorkersFound(st, ws) ==
    IF ws = <<>> THEN st ELSE WorkersFound(WorkerFound(st, Head(ws)), Tail(ws))

\* the registry becomes st; killBlobWorker(registered = false) halts the workers
\* it is started for
RegistryBecomes(st) ==
    /\ workerStats' = st.stats
    /\ killTasks' = st.tasks
    /\ bwAlive' = bwAlive \ (st.kills \ recruiting.unregisteredKills)

\* variant that does not look at recruitingLocalities
InitializeBlobWorkerAgain(h) ==
    /\ Active
    /\ \A w \in DOMAIN workerStats : BwAddr(w) # h
    \* interfaceId is a random UID: an id no request has carried
    /\ \E id \in BwIds \ recruiting.usedIds :
         /\ BwAddr(id) = h
         /\ recruiting' = [recruiting EXCEPT
                             !.recruitingLocalities = @ \cup {h},
                             !.usedIds = @ \cup {id},
                             !.initializing = @ \cup {[addr |-> h, id |-> id, started |-> FALSE]}]
    /\ UNCHANGED <<gcVars, alreadyMoved, doLockCheck, assignerWait, recVars, rangeVars, bmVars,
                   splitTasks, dbVars, engVars, envVars>>

\* initializeBlobWorker for a candidate on process h, up to its wait: the
\* request is sent when no known blob worker is on h and no request to h is
\* in flight
InitializeBlobWorker(h) ==
    /\ Active
    /\ \A w \in DOMAIN workerStats : BwAddr(w) # h
    /\ h \notin recruiting.recruitingLocalities
    \* interfaceId is a random UID: an id no request has carried
    /\ \E id \in BwIds \ recruiting.usedIds :
         /\ BwAddr(id) = h
         /\ recruiting' = [recruiting EXCEPT
                             !.recruitingLocalities = @ \cup {h},
                             !.usedIds = @ \cup {id},
                             !.initializing = @ \cup {[addr |-> h, id |-> id, started |-> FALSE]}]
    /\ UNCHANGED <<gcVars, alreadyMoved, doLockCheck, assignerWait, recVars, rangeVars, bmVars,
                   splitTasks, dbVars, engVars, envVars>>

\* the process that got the request starts the blob worker, which registers
\* itself in the worker list
BlobWorkerStarts(req) ==
    /\ req \in recruiting.initializing
    /\ ~req.started
    /\ bwAlive' = bwAlive \cup {req.id}
    /\ bwList' = bwList \cup {req.id}
    /\ recruiting' = [recruiting EXCEPT
                        !.initializing = (@ \ {req}) \cup {[req EXCEPT !.started = TRUE]}]
    /\ UNCHANGED <<gcVars, alreadyMoved, doLockCheck, assignerWait, recVars, rangeVars, bmVars,
                   splitTasks, dbVars, engVars, changeKey, granuleMapping, staleCommits,
                   reportsSent>>

\* initializeBlobWorker after its wait: with a reply the new worker is taken
\* like one found in the worker list; with recruitment_failed or
\* request_maybe_delivered nothing is added; the address is recruited on no more
InitializeReply(req, present) ==
    /\ Active
    /\ req \in recruiting.initializing
    /\ present => req.started
    /\ LET now == [stats |-> workerStats, addrs |-> recruiting.workerAddresses,
                 kills |-> recruiting.unregisteredKills, tasks |-> killTasks]
           st == IF present THEN WorkerFound(now, req.id) ELSE now
       IN  /\ RegistryBecomes(st)
           /\ recruiting' = [recruiting EXCEPT
                               !.workerAddresses = st.addrs,
                               !.unregisteredKills = st.kills,
                               !.recruitingLocalities = @ \ {req.addr},
                               !.initializing = @ \ {req}]
    /\ recruitTriggers' = recruitTriggers + 1
    /\ UNCHANGED <<gcVars, alreadyMoved, doLockCheck, assignerWait, recVars, rangeVars, bmVars,
                   splitTasks, dbVars, workerAssignments, deadWorkers, assignsInProgress,
                   inflight, sent, monitor, lastSeenSeqno, bwList, changeKey, granuleMapping,
                   staleCommits, reportsSent>>

\* checkBlobWorkerList: getBlobWorkers reads the worker list
CheckListRead ==
    /\ Active
    /\ recruiting.blobWorkers = <<>>
    /\ recruiting.listReads < MaxListReads
    /\ recruiting' = [recruiting EXCEPT !.blobWorkers = <<bwList>>, !.listReads = @ + 1]
    /\ UNCHANGED <<gcVars, alreadyMoved, doLockCheck, assignerWait, recVars, rangeVars, bmVars,
                   splitTasks, dbVars, engVars, envVars>>

\* checkBlobWorkerList: the list read arrives and the loop over it runs
CheckListDone ==
    /\ Active
    /\ recruiting.blobWorkers # <<>>
    /\ LET now == [stats |-> workerStats, addrs |-> recruiting.workerAddresses,
                 kills |-> recruiting.unregisteredKills, tasks |-> killTasks]
           st == WorkersFound(now, SortedSeq(recruiting.blobWorkers[1]))
       IN  /\ RegistryBecomes(st)
           /\ recruiting' = [recruiting EXCEPT
                               !.workerAddresses = st.addrs,
                               !.unregisteredKills = st.kills,
                               !.blobWorkers = <<>>]
    /\ UNCHANGED <<gcVars, alreadyMoved, doLockCheck, assignerWait, recVars, rangeVars, bmVars,
                   splitTasks, dbVars, workerAssignments, deadWorkers, assignsInProgress,
                   inflight, sent, monitor, lastSeenSeqno, recruitTriggers, bwList, changeKey,
                   granuleMapping, staleCommits, reportsSent>>

\* killBlobWorker(registered = false): the transaction of deregisterBlobWorker
\* commits; recruiting is triggered
DeregisterUnregistered(w) ==
    /\ Active
    /\ w \in recruiting.unregisteredKills
    /\ IF managerEpoch # epoch
       THEN /\ iAmReplaced' = TRUE
            /\ UNCHANGED <<bwList, recruitTriggers>>
       ELSE /\ bwList' = bwList \ {w}
            /\ recruitTriggers' = recruitTriggers + 1
            /\ UNCHANGED iAmReplaced
    /\ recruiting' = [recruiting EXCEPT !.unregisteredKills = @ \ {w}]
    /\ UNCHANGED <<gcVars, alreadyMoved, doLockCheck, assignerWait, recVars, rangeVars, epoch,
                   seqNo, rangesToAssign, stopped, assertFailed, nextUID, splitTasks, dbVars,
                   workerAssignments, workerStats, deadWorkers, assignsInProgress, inflight,
                   sent, monitor, lastSeenSeqno, killTasks, bwAlive, changeKey, granuleMapping,
                   staleCommits, reportsSent>>

InitWorkers ==
    /\ knownBlobRanges = KRMNew(FALSE, NormalEnd)
    /\ rangesToAdd = <<>>
    /\ rangesToRemove = <<>>
    /\ initialKnown = <<>>
    /\ dbActive = [k \in 0 .. (NormalEnd - 1) |-> FALSE]
    /\ netEmitted = <<>>
    /\ epoch = 1
    /\ seqNo = 1
    /\ iAmReplaced = FALSE
    /\ rangesToAssign = <<>>
    /\ stopped = FALSE
    /\ assertFailed = ""
    /\ nextUID = 0
    /\ splitTasks = <<>>
    /\ managerEpoch = 1
    /\ granuleLocks = <<>>
    /\ splitBoundaries = <<>>
    /\ splitKeys = <<>>
    /\ historyKeys = <<>>
    /\ workerAssignments = KRMNew(NoWorker, NormalEnd)
    /\ workerStats = <<>>
    /\ deadWorkers = {}
    /\ assignsInProgress = [k \in 0 .. (NormalEnd - 1) |-> 0]
    /\ inflight = {}
    /\ sent = <<>>
    /\ monitor = [pc |-> "watch", idx |-> 0, ckvBegin |-> 0, lastChange |-> 0]
    /\ lastSeenSeqno = [w \in BwIds |-> KRMNew(<<0, 0>>, NormalEnd)]
    /\ killTasks = [w \in BwIds |-> "none"]
    /\ recruitTriggers = 0
    /\ bwAlive = {}
    /\ bwList = {}
    /\ changeKey = 0
    /\ granuleMapping = KRMNew(NoWorker, NormalEnd)
    /\ staleCommits = {}
    /\ reportsSent = 0
    /\ recovery = <<>>
    /\ bwGranules = <<>>
    /\ assignerWait = <<>>
    /\ alreadyMoved = {}
    /\ doLockCheck = LockCheckIdle
    /\ recruiting = RecruitingIdle
    /\ GcIdle

NextWorkers ==
    \/ \E h \in 1 .. NumHosts : InitializeBlobWorker(h)
    \/ \E req \in recruiting.initializing : BlobWorkerStarts(req)
    \/ \E req \in recruiting.initializing : \E present \in BOOLEAN : InitializeReply(req, present)
    \/ CheckListRead
    \/ CheckListDone
    \/ \E w \in BwIds : DeregisterUnregistered(w)
    \/ \E w \in BwIds : WorkerFails(w)
    \/ \E w \in BwIds : KillStart(w)
    \/ \E w \in BwIds : DeregisterCommit(w)
    \/ \E w \in BwIds : KillFinish(w)
    \/ ManagerElected
    \/ ManagerExits

SpecWorkers == InitWorkers /\ [][NextWorkers]_vars

\* initializeBlobWorker sends a request to process h in this step
RequestSentTo(h) ==
    \E id \in recruiting'.usedIds \ recruiting.usedIds : BwAddr(id) = h

\* C38: no two workers in workersById have the same stable address,
\* workerAddresses is the set of the addresses of the workers in workersById,
\* and no InitializeBlobWorkerRequest is sent to an address that has a known
\* blob worker or another request in flight
C38_OneWorkerPerAddress ==
    /\ [](/\ \A a \in DOMAIN workerStats : \A b \in DOMAIN workerStats :
                a # b => BwAddr(a) # BwAddr(b)
          /\ recruiting.workerAddresses = {BwAddr(w) : w \in DOMAIN workerStats})
    /\ [][\A h \in 1 .. NumHosts :
             RequestSentTo(h) =>
                /\ \A w \in DOMAIN workerStats : BwAddr(w) # h
                /\ \A req \in recruiting.initializing : req.addr # h]_vars

\* a worker was killed and deregistered, a new worker recruited on its process
\* is registered next to the other worker, and no request is in flight
C38_Witness ==
    /\ Cardinality(DOMAIN workerStats) = NumHosts
    /\ \E w \in BwIds : \E v \in DOMAIN workerStats :
          /\ killTasks[w] = "done"
          /\ w \notin DOMAIN workerStats
          /\ BwAddr(v) = BwAddr(w)
    /\ recruiting.initializing = {}

\* C39: after killBlobWorker has completed for a registered worker, no step
\* puts that worker in workersById and workerStats and starts a monitor for it
\* again, however the list read of checkBlobWorkerList interleaves with the
\* deregistration and the removal from deadWorkers
C39_KilledWorkerStaysOut ==
    [][\A w \in BwIds :
          (killTasks[w] = "done" /\ w \notin DOMAIN workerStats)
             => w \notin DOMAIN workerStats']_vars

\* C40: at every quiescent point every worker in workerStats has
\* numGranulesAssigned equal to the number of entries of workerAssignments it
\* owns, and numGranulesAssigned is never negative
C40_StatsMatchAssignments ==
    /\ \A w \in DOMAIN workerStats : workerStats[w] >= 0
    /\ (Quiescent /\ ~Recovering /\ assignerWait = <<>>) =>
          \A w \in DOMAIN workerStats : workerStats[w] = Len(OwnedRanges(w))
====
